---------------------------- MODULE Spec2Model ----------------------------
(***************************************************************************)
(* A model of dom-to-semantic-markdown: the main-content locator           *)
(* (core/domUtils.ts), the tree translator (core/htmlToMarkdownAST.ts),    *)
(* the AST renderer (core/markdownASTToString.ts) and the entry points     *)
(* (index.ts).                                                             *)
(*                                                                         *)
(* Strings are sequences of one-character strings, so that trimming,       *)
(* escaping, prefix tests and concatenation are computed, not assumed.     *)
(***************************************************************************)
EXTENDS Integers, Sequences, FiniteSets, TLC

(***************************************************************************)
(* String helpers (JavaScript String methods used by the source).          *)
(***************************************************************************)

\* /\s/ restricted to the whitespace characters of the model's alphabet
Whitespace == {" ", "\n", "\t"}

RECURSIVE TrimStart(_)
TrimStart(s) ==
  IF s # <<>> /\ Head(s) \in Whitespace THEN TrimStart(Tail(s)) ELSE s

RECURSIVE TrimEnd(_)
TrimEnd(s) ==
  IF s # <<>> /\ s[Len(s)] \in Whitespace
    THEN TrimEnd(SubSeq(s, 1, Len(s) - 1))
    ELSE s

\* String.prototype.trim
trim(s) == TrimEnd(TrimStart(s))

\* String.prototype.startsWith
startsWith(s, p) == Len(s) >= Len(p) /\ SubSeq(s, 1, Len(p)) = p

\* String.prototype.substring(n)  (n counted from 0)
substring(s, n) == SubSeq(s, n + 1, Len(s))

\* String.prototype.includes
includes(s, p) ==
  \E i \in 0..(Len(s) - Len(p)) : SubSeq(s, i + 1, i + Len(p)) = p

\* the last character as a string, '' for the empty string: s.slice(-1)
sliceLast(s) == IF s = <<>> THEN <<>> ELSE <<s[Len(s)]>>

\* concatenation of a sequence of strings
RECURSIVE Concat(_)
Concat(ss) == IF ss = <<>> THEN <<>> ELSE Head(ss) \o Concat(Tail(ss))

\* ' '.repeat(n) and '#'.repeat(n)
RECURSIVE repeat(_, _)
repeat(c, n) == IF n <= 0 THEN <<>> ELSE <<c>> \o repeat(c, n - 1)

\* split on a separator character: s.split(c)
RECURSIVE split(_, _)
split(s, c) ==
  IF \A i \in 1..Len(s) : s[i] # c
    THEN <<s>>
    ELSE LET k == CHOOSE i \in 1..Len(s) :
                    s[i] = c /\ \A j \in 1..(i - 1) : s[j] # c
         IN <<SubSeq(s, 1, k - 1)>> \o split(SubSeq(s, k + 1, Len(s)), c)

Digits == <<"0", "1", "2", "3", "4", "5", "6", "7", "8", "9">>

\* template-literal formatting of a natural number
RECURSIVE NumToString(_)
NumToString(n) ==
  IF n < 10 THEN <<Digits[n + 1]>>
            ELSE NumToString(n \div 10) \o <<Digits[(n % 10) + 1]>>

DigitValue(c) == (CHOOSE i \in 1..10 : Digits[i] = c) - 1

\* Number.parseInt(s, 10) on a string of decimal digits (the attribute
\* values the model draws are digit strings; the empty string does not
\* reach parseInt because of the default || '1')
RECURSIVE parseInt(_)
parseInt(s) ==
  IF Len(s) = 1 THEN DigitValue(s[1])
  ELSE parseInt(SubSeq(s, 1, Len(s) - 1)) * 10 + DigitValue(s[Len(s)])

(***************************************************************************)
(* escapeMarkdownCharacters (core/domUtils.ts)                             *)
(***************************************************************************)

\* .replace(/&/g,'&amp;').replace(/</g,'&lt;').replace(/>/g,'&gt;')
replaceAmp(c) == IF c = "&" THEN <<"&", "a", "m", "p", ";">> ELSE <<c>>
replaceLt(c) == IF c = "<" THEN <<"&", "l", "t", ";">> ELSE <<c>>
replaceGt(c) == IF c = ">" THEN <<"&", "g", "t", ";">> ELSE <<c>>

\* The grave accent (backtick) cannot be written in a string literal; this
\* value stands for that one character.
Backtick == "(backtick)"

\* the character class of the regular expression in
\* escapedText.replace(..., '\\$1'): backslash, backtick, * _ { } [ ] # + ! |
MarkdownSpecial ==
  {"\\", Backtick, "*", "_", "{", "}", "[", "]", "#", "+", "!", "|"}

backslashEscape(c) == IF c \in MarkdownSpecial THEN <<"\\", c>> ELSE <<c>>

escapeMarkdownCharactersBody(text) ==
  LET r1 == Concat([i \in 1..Len(text) |-> replaceAmp(text[i])])
      r2 == Concat([i \in 1..Len(r1) |-> replaceLt(r1[i])])
      r3 == Concat([i \in 1..Len(r2) |-> replaceGt(r2[i])])
  IN Concat([i \in 1..Len(r3) |-> backslashEscape(r3[i])])

escapeMarkdownCharacters(text, isInlineCode) ==
  IF isInlineCode \/ trim(text) = <<>>
    THEN text
    ELSE escapeMarkdownCharactersBody(text)

(***************************************************************************)
(* The DOM: text nodes, comment nodes and elements.  An absent attribute   *)
(* is the value Absent, which is no string of the alphabet.                *)
(***************************************************************************)

Absent == <<"(absent)">>

AttrNames ==
  {"href", "src", "alt", "poster", "controls", "colspan", "rowspan", "id",
   "class", "role", "data-main", "data-content", "content", "name",
   "property"}

NoAttrs == [k \in AttrNames |-> Absent]

\* attributes given as a record, every other attribute absent
Attrs(given) ==
  [k \in AttrNames |-> IF k \in DOMAIN given THEN given[k] ELSE Absent]

\* window.getComputedStyle(element), as far as isElementVisible reads it
VisibleStyle == [display |-> "block", visibility |-> "visible", opacity |-> "1"]

\* element.shadowRoot of an element that has none (null)
NoShadowRoot == [attached |-> FALSE, childNodes |-> <<>>]

TextNode(data) ==
  [nodeType |-> "text", tagName |-> "#text", data |-> data,
   attrs |-> NoAttrs, childNodes |-> <<>>, style |-> VisibleStyle,
   shadowRoot |-> NoShadowRoot, assigned |-> <<>>]

CommentNode(data) ==
  [nodeType |-> "comment", tagName |-> "#comment", data |-> data,
   attrs |-> NoAttrs, childNodes |-> <<>>, style |-> VisibleStyle,
   shadowRoot |-> NoShadowRoot, assigned |-> <<>>]

Element(tagName, attrs, childNodes) ==
  [nodeType |-> "element", tagName |-> tagName, data |-> <<>>,
   attrs |-> attrs, childNodes |-> childNodes, style |-> VisibleStyle,
   shadowRoot |-> NoShadowRoot, assigned |-> <<>>]

\* an element with a computed style
Styled(element, style) == [element EXCEPT !.style = style]

\* a slot element of a shadow tree; assigned is what assignedNodes() returns,
\* the light children of the shadow host that are assigned to the slot
Slot(assigned) ==
  [Element("slot", NoAttrs, <<>>) EXCEPT !.assigned = assigned]

\* element.attachShadow(...) with the given shadow tree
ShadowHost(element, shadowChildNodes) ==
  [element EXCEPT
     !.shadowRoot = [attached |-> TRUE, childNodes |-> shadowChildNodes]]

isTextNode(node) == node.nodeType = "text"
isElement(node) == node.nodeType = "element"
isSlotElement(element) == element.tagName = "slot"

\* isElementVisible of core/domUtils.ts (every element of the model is an
\* HTMLElement)
isElementVisible(element) ==
  /\ element.style.display # "none"
  /\ element.style.visibility # "hidden"
  /\ element.style.opacity # "0"

hasAttribute(element, name) == element.attrs[name] # Absent

\* Element.children: the child nodes that are elements
children(element) ==
  SelectSeq(element.childNodes, LAMBDA n : n.nodeType = "element")

\* Node.textContent: the text of the node's descendants (comments skipped)
RECURSIVE textContent(_)
textContent(node) ==
  IF node.nodeType = "text" THEN node.data
  ELSE IF node.nodeType = "comment" THEN <<>>
  ELSE Concat([i \in 1..Len(node.childNodes) |->
                 textContent(node.childNodes[i])])

\* the element descendants of a node in document order (the node excluded)
RECURSIVE descendants(_)
descendants(node) ==
  Concat([i \in 1..Len(node.childNodes) |->
            IF node.childNodes[i].nodeType = "element"
              THEN <<node.childNodes[i]>> \o descendants(node.childNodes[i])
              ELSE <<>>])

\* element.querySelectorAll / getElementsByTagName for a list of tag names
querySelectorAll(node, tags) ==
  SelectSeq(descendants(node), LAMBDA e : e.tagName \in tags)

(***************************************************************************)
(* The semantic AST (types/markdownTypes.ts).  A node whose content is a   *)
(* string carries it in the field text, a node whose content is a node     *)
(* array carries it in the field content, so Array.isArray(node.content)   *)
(* is "content" \in DOMAIN node.  undefined is Absent for strings and 0    *)
(* for colspan / rowspan (the source only tests them with || and >).       *)
(***************************************************************************)

Text(s) == [type |-> "text", text |-> s]

\* lineBreak and contentBreak are each one object, made once when the module
\* is loaded (Object.freeze({...})) and pushed by reference; the field object
\* names that object.  A node made by an object literal inside a translator
\* is a new object every time and has no such field.
lineBreak == [type |-> "text", text |-> <<"\n">>, object |-> "lineBreak"]

contentBreak ==
  [type |-> "text", text |-> <<"\n", "\n">>, object |-> "contentBreak"]

isArrayContent(node) == "content" \in DOMAIN node

(***************************************************************************)
(* Options (ExtractOptions / RenderOptions / ConversionOptions).           *)
(*                                                                         *)
(* A hook is a function of the caller.  The model describes a hook by the  *)
(* elements it answers for (by tag name) and the value it returns for      *)
(* them; for every other element it returns undefined.  A returned value   *)
(* is undefined, false or a node array.                                    *)
(***************************************************************************)

Undefined == [kind |-> "undefined", nodes |-> <<>>]
False == [kind |-> "false", nodes |-> <<>>]
Nodes(nodes) == [kind |-> "nodes", nodes |-> nodes]

\* the option is not set
NoHook == [defined |-> FALSE, tags |-> {}, result |-> Undefined]

Hook(tags, result) == [defined |-> TRUE, tags |-> tags, result |-> result]

\* options?.hook?.(element, options, indentLevel)
callHook(hook, element) ==
  IF hook.defined /\ element.tagName \in hook.tags THEN hook.result
  ELSE Undefined

\* overrideNodeRenderer returns a string or undefined; the model describes it
\* by the node types it answers for and the string it returns for them
UndefinedString == [kind |-> "undefined", text |-> <<>>]
String(text) == [kind |-> "string", text |-> text]

NoRenderer == [defined |-> FALSE, types |-> {}, result |-> UndefinedString]

Renderer(types, result) ==
  [defined |-> TRUE, types |-> types, result |-> result]

\* options?.overrideNodeRenderer?.(node, options, indentLevel)
callRenderer(renderer, node) ==
  IF renderer.defined /\ node.type \in renderer.types THEN renderer.result
  ELSE UndefinedString

\* if (rendering): a string is truthy unless it is empty, undefined is not
isTruthyString(rendering) ==
  rendering.kind = "string" /\ rendering.text # <<>>

\* includeMetaData: false | 'basic' | 'extended'
NoMetaData == "false"

DefaultOptions ==
  [websiteDomain |-> Absent,
   enableTableColumnTracking |-> FALSE,
   excludeTagNames |-> {},
   extractMainContent |-> FALSE,
   overrideDOMParser |-> FALSE,
   refifyUrls |-> FALSE,
   includeMetaData |-> NoMetaData,
   excludeInvisibleElements |-> FALSE,
   overrideElementProcessing |-> NoHook,
   processUnhandledElement |-> NoHook,
   overrideNodeRenderer |-> NoRenderer,
   renderCustomNode |-> NoRenderer,
   emitFrontMatter |-> FALSE]

(***************************************************************************)
(* Metadata of the head element (core/htmlToMarkdownAST.ts,                *)
(* extractMetaData).  The content object is a record of its standard,      *)
(* openGraph and twitter members, each the sequence of its key/value       *)
(* pairs in insertion order; an empty sequence is a member that was never  *)
(* created.  The jsonLd member is an array of objects when it is set; an   *)
(* object is its @type, Absent when it has none, and the sequence of its   *)
(* other members.  The documents of the model carry no JSON-LD script, so  *)
(* extractMetaData never sets jsonLd; a meta node with jsonLd comes from a *)
(* hook.                                                                   *)
(***************************************************************************)

\* content.jsonLd before it is set
NoJsonLd == [defined |-> FALSE, entries |-> <<>>]

NoContent ==
  [standard |-> <<>>, openGraph |-> <<>>, twitter |-> <<>>,
   jsonLd |-> NoJsonLd]

\* content[type][key] = value
setKey(pairs, key, value) ==
  IF \E i \in 1..Len(pairs) : pairs[i].key = key
    THEN [i \in 1..Len(pairs) |->
            IF pairs[i].key = key THEN [key |-> key, value |-> value]
            ELSE pairs[i]]
    ELSE Append(pairs, [key |-> key, value |-> value])

setContent(content, type, key, value) ==
  [content EXCEPT ![type] = setKey(@, key, value)]

\* HTMLTitleElement.text: the data of the text nodes that are its children
titleText(titleElem) ==
  Concat([k \in 1..Len(titleElem.childNodes) |->
            IF isTextNode(titleElem.childNodes[k])
              THEN titleElem.childNodes[k].data ELSE <<>>])

nonSemanticTagNames ==
  {<<"v", "i", "e", "w", "p", "o", "r", "t">>,
   <<"r", "e", "f", "e", "r", "r", "e", "r">>,
   <<"C", "o", "n", "t", "e", "n", "t", "-", "S", "e", "c", "u", "r", "i",
     "t", "y", "-", "P", "o", "l", "i", "c", "y">>}

OgPrefix == <<"o", "g", ":">>
TwitterPrefix == <<"t", "w", "i", "t", "t", "e", "r", ":">>
TitleKey == <<"t", "i", "t", "l", "e">>

RECURSIVE setTitles(_, _)
setTitles(titles, content) ==
  IF titles = <<>> THEN content
  ELSE setTitles(Tail(titles),
                 setContent(content, "standard", TitleKey,
                            escapeMarkdownCharacters(titleText(Head(titles)),
                                                     FALSE)))

\* the callback of metaTags.forEach
setMetaTag(metaTag, mode, content) ==
  LET content_ == IF hasAttribute(metaTag, "content")
                    THEN metaTag.attrs["content"] ELSE <<>>
      property == metaTag.attrs["property"]
      name == metaTag.attrs["name"]
  IN IF content_ = <<>> THEN content
     ELSE IF property # Absent /\ startsWith(property, OgPrefix)
       THEN IF mode = "extended"
              THEN setContent(content, "openGraph", substring(property, 3),
                              content_)
              ELSE content
     ELSE IF name # Absent /\ startsWith(name, TwitterPrefix)
       THEN IF mode = "extended"
              THEN setContent(content, "twitter", substring(name, 8),
                              content_)
              ELSE content
     ELSE IF name # Absent /\ name # <<>> /\ name \notin nonSemanticTagNames
       THEN setContent(content, "standard", name, content_)
     ELSE content

RECURSIVE setMetaTags(_, _, _)
setMetaTags(metaTags, mode, content) ==
  IF metaTags = <<>> THEN content
  ELSE setMetaTags(Tail(metaTags), mode,
                   setMetaTag(Head(metaTags), mode, content))

extractMetaData(elem, mode) ==
  setMetaTags(querySelectorAll(elem, {"meta"}), mode,
              setTitles(querySelectorAll(elem, {"title"}), NoContent))

(***************************************************************************)
(* The tree translator (core/htmlToMarkdownAST.ts, table-driven variant).  *)
(* A translator returns the nodes it pushes onto result.                   *)
(***************************************************************************)

\* HTMLAnchorElement.href, HTMLImageElement.src, .alt, .poster: the
\* reflected attribute, '' when the attribute is absent
reflected(element, name) ==
  IF hasAttribute(element, name) THEN element.attrs[name] ELSE <<>>

DataImage == <<"d", "a", "t", "a", ":", "i", "m", "a", "g", "e">>

\* href/src with the websiteDomain prefix removed
stripDomain(url, options) ==
  IF /\ options.websiteDomain # Absent
     /\ options.websiteDomain # <<>>
     /\ startsWith(url, options.websiteDomain)
    THEN substring(url, Len(options.websiteDomain))
    ELSE url

formattingTagMap ==
  [strong |-> "bold", b |-> "bold", em |-> "italic", i |-> "italic",
   s |-> "strikethrough"]

HeadingTags == {"h1", "h2", "h3", "h4", "h5", "h6"}

SemanticTags ==
  {"article", "aside", "details", "figcaption", "figure", "footer",
   "header", "main", "mark", "nav", "section", "summary", "time"}

IgnoredTags == {"noscript", "script", "style", "html"}

\* Number.parseInt(headingNode.tagName.substring(1)) of headingTranslator
headingLevel(tagName) ==
  CHOOSE level \in 1..6 :
    <<"h1", "h2", "h3", "h4", "h5", "h6">>[level] = tagName

\* the class token that selects the language of a code element
languageOf(codeNode) ==
  LET prefix == <<"l", "a", "n", "g", "u", "a", "g", "e", "-">>
      tokens == SelectSeq(split(reflected(codeNode, "class"), " "),
                          LAMBDA t : t # <<>>)
      hits == SelectSeq(tokens, LAMBDA t : startsWith(t, prefix))
  IN IF hits = <<>> THEN Absent ELSE substring(hits[1], Len(prefix))

\* the column ids of a table: one per th/td of the whole table node
tableColIds(tableNode, options) ==
  IF options.enableTableColumnTracking
    THEN LET headerCells == querySelectorAll(tableNode, {"th", "td"})
         IN [index \in 1..Len(headerCells) |->
               <<"c", "o", "l", "-">> \o NumToString(index - 1)]
    ELSE <<>>

cellSpan(cell, name) ==
  parseInt(IF hasAttribute(cell, name) /\ cell.attrs[name] # <<>>
             THEN cell.attrs[name]
             ELSE <<"1">>)

\* columnIndex when the k-th cell of a row is reached
RECURSIVE columnIndexAt(_, _)
columnIndexAt(cells, k) ==
  IF k <= 1 THEN 0
  ELSE columnIndexAt(cells, k - 1) + cellSpan(cells[k - 1], "colspan")

headerSeparatorRow(firstRow) ==
  [type |-> "tableRow",
   cells |-> [k \in 1..Len(querySelectorAll(firstRow, {"th", "td"})) |->
                [type |-> "tableCell", text |-> <<"-", "-", "-">>,
                 colId |-> Absent, colspan |-> 0, rowspan |-> 0]]]

\* the row added after the last row
spliceLast(rows, row) == Append(rows, row)

\* Array.prototype.splice(1, 0, row)
splice1(rows, row) == <<rows[1]>> \o <<row>> \o Tail(rows)

RECURSIVE htmlToMarkdownAST(_, _, _)
RECURSIVE processChild(_, _, _, _)
RECURSIVE defaultHandling(_, _, _, _)
RECURSIVE translate(_, _, _, _)
RECURSIVE tableRowNode(_, _, _, _)

\* translators.a
anchorTranslator(linkNode, options) ==
  IF startsWith(reflected(linkNode, "href"), DataImage)
    THEN <<[type |-> "link", href |-> <<"-">>,
            content |-> htmlToMarkdownAST(linkNode, options, 0)]>>
    ELSE
      LET href == stripDomain(reflected(linkNode, "href"), options)
      IN IF \A k \in 1..Len(linkNode.childNodes) :
               isTextNode(linkNode.childNodes[k])
           THEN <<[type |-> "link", href |-> href,
                   content |-> <<Text(trim(textContent(linkNode)))>>]>>
           ELSE LET content == htmlToMarkdownAST(linkNode, options, 0)
                IN IF content = <<>>
                     THEN <<>>
                     ELSE <<[type |-> "link", href |-> href,
                             content |-> content]>>

\* translators.img
imageTranslator(imageNode, options) ==
  IF startsWith(reflected(imageNode, "src"), DataImage)
    THEN <<[type |-> "image", src |-> <<"-">>,
            alt |-> escapeMarkdownCharacters(reflected(imageNode, "alt"),
                                             FALSE)]>>
    ELSE <<[type |-> "image",
            src |-> stripDomain(reflected(imageNode, "src"), options),
            alt |-> escapeMarkdownCharacters(reflected(imageNode, "alt"),
                                             FALSE)]>>

\* translators.video
videoTranslator(videoNode) ==
  <<[type |-> "video", src |-> reflected(videoNode, "src"),
     poster |-> escapeMarkdownCharacters(reflected(videoNode, "poster"),
                                         FALSE),
     controls |-> hasAttribute(videoNode, "controls")]>>

\* one row of translators.table (the callback of tableRows.map)
tableRowNode(row, colIds, options, indentLevel) ==
  LET cells == querySelectorAll(row, {"th", "td"})
  IN [type |-> "tableRow",
      cells |->
        [k \in 1..Len(cells) |->
           LET colspan == cellSpan(cells[k], "colspan")
               rowspan == cellSpan(cells[k], "rowspan")
               columnIndex == columnIndexAt(cells, k)
           IN [type |-> "tableCell",
               content |-> htmlToMarkdownAST(cells[k], options,
                                             indentLevel + 1),
               colId |-> IF columnIndex + 1 \in 1..Len(colIds)
                           THEN colIds[columnIndex + 1]
                           ELSE Absent,
               colspan |-> IF colspan > 1 THEN colspan ELSE 0,
               rowspan |-> IF rowspan > 1 THEN rowspan ELSE 0]]]

\* translators.table
tableTranslator(tableNode, options, indentLevel) ==
  LET colIds == tableColIds(tableNode, options)
      tableRows == querySelectorAll(tableNode, {"tr"})
      markdownTableRows ==
        [r \in 1..Len(tableRows) |->
           tableRowNode(tableRows[r], colIds, options, indentLevel)]
      hasHeaders ==
        Len(tableRows) > 0 /\ querySelectorAll(tableRows[1], {"th"}) # <<>>
  IN <<[type |-> "table",
        rows |-> IF hasHeaders
                   THEN splice1(markdownTableRows,
                                headerSeparatorRow(tableRows[1]))
                   ELSE markdownTableRows,
        colIds |-> colIds]>>

\* inline code also denied to the code children of a blockquote
isInlineOutsideQuote(parent) == parent.tagName \notin {"pre", "blockquote"}

\* codeNode.parentNode?.nodeName !== 'PRE'
isInline(parent) == parent.tagName # "pre"

\* translators.code
codeTranslator(codeNode, parent) ==
  LET content == trim(textContent(codeNode))
  IN IF content = <<>>
       THEN <<>>
       ELSE <<[type |-> "code", text |-> content,
               language |-> languageOf(codeNode),
               inline |-> isInline(parent)]>>

\* listTranslator
listTranslator(listNode, options, indentLevel) ==
  LET lis == children(listNode)
  IN <<[type |-> "list", ordered |-> listNode.tagName = "ol",
        items |-> [k \in 1..Len(lis) |->
                     [type |-> "listItem",
                      content |-> htmlToMarkdownAST(lis[k], options,
                                                    indentLevel + 1)]]]>>

\* formattingTranslator
formattingTranslator(element, options, indentLevel) ==
  IF trim(textContent(element)) # <<>>
    THEN <<[type |-> formattingTagMap[element.tagName],
            content |-> htmlToMarkdownAST(element, options,
                                          indentLevel + 1)]>>
    ELSE <<>>

\* translators.p
paragraphTranslator(paragraphNode, options) ==
  LET content == htmlToMarkdownAST(paragraphNode, options, 0)
  IN IF content = <<>> THEN <<>> ELSE content \o <<contentBreak>>

\* the translators table: the handler of a tag name, applied
translate(child, parent, options, indentLevel) ==
  LET tagName == child.tagName
  IN CASE tagName = "p" -> paragraphTranslator(child, options)
       [] tagName = "a" -> anchorTranslator(child, options)
       [] tagName = "img" -> imageTranslator(child, options)
       [] tagName = "video" -> videoTranslator(child)
       [] tagName = "br" -> <<lineBreak>>
       [] tagName = "hr" -> <<contentBreak>>
       [] tagName = "table" -> tableTranslator(child, options, indentLevel)
       [] tagName = "blockquote" ->
            <<[type |-> "blockquote",
               content |-> htmlToMarkdownAST(child, options, 0)]>>
       [] tagName = "code" -> codeTranslator(child, parent)
       [] tagName \in HeadingTags ->
            <<[type |-> "heading",
               level |-> headingLevel(tagName),
               content |-> htmlToMarkdownAST(child, options, 0)]>>
       [] tagName \in {"ul", "ol"} ->
            listTranslator(child, options, indentLevel)
       [] tagName \in DOMAIN formattingTagMap ->
            formattingTranslator(child, options, indentLevel)
       [] tagName \in SemanticTags ->
            <<[type |-> "semanticHtml", htmlType |-> tagName,
               content |-> htmlToMarkdownAST(child, options, 0)]>>
       [] OTHER -> <<>>

TranslatedTags ==
  {"p", "a", "img", "video", "br", "hr", "table", "blockquote", "code",
   "ul", "ol"} \cup HeadingTags \cup DOMAIN formattingTagMap
     \cup SemanticTags \cup IgnoredTags

\* the else branch of processChild: what is done with an element for which
\* the override hook returned undefined
defaultHandling(child, parent, options, indentLevel) ==
  IF child.tagName \in options.excludeTagNames THEN <<>>
  ELSE IF options.includeMetaData # NoMetaData /\ child.tagName = "head"
    THEN <<[type |-> "meta",
            meta |-> extractMetaData(child, options.includeMetaData)]>>
  ELSE IF options.excludeInvisibleElements /\ ~isElementVisible(child)
    THEN <<>>
  ELSE IF child.tagName \in TranslatedTags
    THEN translate(child, parent, options, indentLevel)
  ELSE LET unhandledElementProcessing ==
             callHook(options.processUnhandledElement, child)
       IN IF unhandledElementProcessing.kind = "nodes"
            THEN unhandledElementProcessing.nodes
            ELSE htmlToMarkdownAST(child, options, indentLevel + 1)

\* the test of the conditional-chain variant: if (overrideResult)
isOverriddenIfTruthy(overrideResult) == overrideResult.kind = "nodes"

\* overrideResult !== undefined
isOverridden(overrideResult) == overrideResult.kind # "undefined"

\* processChild of htmlToMarkdownAST: the nodes one child node contributes.
\* The parentNode of a node assigned to a slot is the shadow host, which the
\* slot does not know; a host is never a pre element (attachShadow refuses
\* it), and the slot element stands for it.
processChild(child, parent, options, indentLevel) ==
  IF isTextNode(child)
    THEN LET textContent_ ==
               escapeMarkdownCharacters(trim(child.data), FALSE)
         IN IF textContent_ # <<>> THEN <<Text(textContent_)>> ELSE <<>>
  ELSE IF ~isElement(child) THEN <<>>
  ELSE IF isSlotElement(child)
    THEN Concat([k \in 1..Len(child.assigned) |->
                   processChild(child.assigned[k], child, options,
                                indentLevel)])
  ELSE LET overrideResult ==
             callHook(options.overrideElementProcessing, child)
       IN IF isOverridden(overrideResult)
            THEN IF overrideResult.kind # "false"
                   THEN overrideResult.nodes ELSE <<>>
            ELSE defaultHandling(child, parent, options, indentLevel)

\* element.shadowRoot?.childNodes ?? element.childNodes
childNodesOf(element) ==
  IF element.shadowRoot.attached THEN element.shadowRoot.childNodes
  ELSE element.childNodes

htmlToMarkdownAST(element, options, indentLevel) ==
  Concat([k \in 1..Len(childNodesOf(element)) |->
            processChild(childNodesOf(element)[k], element, options,
                         indentLevel)])

(***************************************************************************)
(* The AST renderer (core/markdownASTToString.ts).                         *)
(***************************************************************************)

\* encodeURI: the characters it leaves alone are letters, digits and
\* ; , / ? : @ & = + $ - _ . ! ~ * ' ( ) #  ; the others are percent-encoded
encodeURIChar(c) ==
  CASE c = " " -> <<"%", "2", "0">>
    [] c = "\"" -> <<"%", "2", "2">>
    [] c = "%" -> <<"%", "2", "5">>
    [] c = "<" -> <<"%", "3", "C">>
    [] c = ">" -> <<"%", "3", "E">>
    [] c = "[" -> <<"%", "5", "B">>
    [] c = "\\" -> <<"%", "5", "C">>
    [] c = "]" -> <<"%", "5", "D">>
    [] c = "^" -> <<"%", "5", "E">>
    [] c = Backtick -> <<"%", "6", "0">>
    [] c = "{" -> <<"%", "7", "B">>
    [] c = "|" -> <<"%", "7", "C">>
    [] c = "}" -> <<"%", "7", "D">>
    [] c = "\n" -> <<"%", "0", "A">>
    [] c = "\t" -> <<"%", "0", "9">>
    [] OTHER -> <<c>>

encodeURI(s) == Concat([k \in 1..Len(s) |-> encodeURIChar(s[k])])

\* /^[.,!?;:]/ of isContentPunctuation
Punctuation == {".", ",", "!", "?", ";", ":"}

InlineTypes == {"text", "bold", "italic", "strikethrough", "link"}

\* the sum of a row's colspans: row.cells.reduce(...)
RECURSIVE rowColumns(_)
rowColumns(cells) ==
  IF cells = <<>> THEN 0
  ELSE (IF Head(cells).colspan # 0 THEN Head(cells).colspan ELSE 1)
         + rowColumns(Tail(cells))

\* Math.max over the rows of a table with at least one row
maxColumnsOf(rows) ==
  CHOOSE m \in {rowColumns(rows[r].cells) : r \in 1..Len(rows)} :
    \A r \in 1..Len(rows) : rowColumns(rows[r].cells) <= m

RECURSIVE markdownContentASTToString(_, _, _)
RECURSIVE renderNodes(_, _, _, _)
RECURSIVE renderNode(_, _, _, _)
RECURSIVE renderDefault(_, _, _, _)
RECURSIVE renderListItems(_, _, _, _, _)
RECURSIVE renderCells(_, _, _, _)

\* the space put before inline content, lines 914-929, decided without the
\* test for punctuation
needsSpaceBeforePunctuation(markdownString, content) ==
  /\ Len(markdownString) > 0
  /\ ~(content # <<>> /\ content[1] \in Whitespace)
  /\ ~(markdownString[Len(markdownString)] \in Whitespace)

\* whether a space is put before inline content: lines 914-927
needsSpace(markdownString, content) ==
  LET isMarkdownStringNotEmpty == Len(markdownString) > 0
      isFirstCharOfContentWhitespace ==
        content # <<>> /\ content[1] \in Whitespace
      isLastCharOfMarkdownWhitespace ==
        markdownString # <<>>
          /\ markdownString[Len(markdownString)] \in Whitespace
      isContentPunctuation ==
        Len(content) = 1 /\ content[1] \in Punctuation
  IN /\ isMarkdownStringNotEmpty
     /\ ~isContentPunctuation
     /\ ~isFirstCharOfContentWhitespace
     /\ ~isLastCharOfMarkdownWhitespace

\* the test for a text-only link with the type of the child left out
isOneChildLink(node) == Len(node.content) = 1

\* "check if the link contains only text": lines 942-945
isTextOnlyLink(node) ==
  Len(node.content) = 1 /\ node.content[1].type = "text"

\* case 'text' | 'bold' | 'italic' | 'strikethrough' | 'link'
renderInline(markdownString, node, options, indentLevel) ==
  LET indent == repeat(" ", indentLevel * 2)
      content ==
        IF isArrayContent(node)
          THEN markdownContentASTToString(node.content, options,
                                          indentLevel)
          ELSE node.text
      spaced ==
        IF needsSpace(markdownString, content)
          THEN markdownString \o <<" ">>
          ELSE markdownString
  IN CASE node.type = "text" -> spaced \o indent \o content
       [] node.type = "bold" ->
            spaced \o <<"*", "*">> \o content \o <<"*", "*">>
       [] node.type = "italic" -> spaced \o <<"*">> \o content \o <<"*">>
       [] node.type = "strikethrough" ->
            spaced \o <<"~", "~">> \o content \o <<"~", "~">>
       [] node.type = "link" ->
            IF isTextOnlyLink(node)
              THEN spaced \o <<"[">> \o content \o <<"]", "(">>
                     \o encodeURI(node.href) \o <<")">>
              ELSE spaced \o <<"<", "a", " ", "h", "r", "e", "f", "=", "\"">>
                     \o node.href \o <<"\"", ">">> \o content
                     \o <<"<", "/", "a", ">">>

\* case 'heading'
renderHeading(markdownString, node, options, indentLevel) ==
  LET started ==
        IF sliceLast(markdownString) # <<"\n">>
          THEN markdownString \o <<"\n">>
          ELSE markdownString
      headingContent ==
        IF isArrayContent(node)
          THEN markdownContentASTToString(node.content, options,
                                          indentLevel)
          ELSE node.text
  IN started \o repeat("#", node.level) \o <<" ">> \o headingContent
       \o <<"\n", "\n">>

\* case 'image'
renderImage(markdownString, node) ==
  IF trim(node.alt) = <<>> \/ trim(node.src) # <<>>
    THEN markdownString \o <<"!", "[">> \o node.alt \o <<"]", "(">>
           \o node.src \o <<")">>
    ELSE markdownString

\* an item line for every item, its content empty or not
emitsEveryItem(contents) == TRUE

\* if (contents) of case 'list'
emitsItem(contents) == contents # <<>>

\* an item numbered by its place among the items that have content
listItemPrefixAmongFilled(node, i) ==
  IF node.ordered
    THEN NumToString(Cardinality({j \in 1..i :
                                    node.items[j].content # <<>>}))
           \o <<".">>
    ELSE <<"-">>

\* const listItemPrefix = node.ordered ? (i + 1) + '.' : '-', the index i
\* of forEach counted from 0 and that of the model from 1
listItemPrefix(node, i) ==
  IF node.ordered THEN NumToString(i) \o <<".">> ELSE <<"-">>

\* the callback of node.items.forEach of case 'list', from item i on
renderListItems(markdownString, node, i, options, indentLevel) ==
  IF i > Len(node.items) THEN markdownString
  ELSE
    LET indent == repeat(" ", indentLevel * 2)
        contents ==
          trim(markdownContentASTToString(node.items[i].content, options,
                                          indentLevel + 1))
        onNewLine ==
          IF sliceLast(markdownString) # <<"\n">>
            THEN markdownString \o <<"\n">>
            ELSE markdownString
        withItem ==
          IF emitsItem(contents)
            THEN onNewLine \o indent \o listItemPrefix(node, i) \o <<" ">>
                   \o contents \o <<"\n">>
            ELSE onNewLine
    IN renderListItems(withItem, node, i + 1, options, indentLevel)

\* case 'list'
renderList(markdownString, node, options, indentLevel) ==
  renderListItems(markdownString, node, 1, options, indentLevel)
    \o <<"\n">>

\* case 'video'
renderVideo(markdownString, node) ==
  markdownString
    \o <<"\n", "!", "[", "V", "i", "d", "e", "o", "]", "(">> \o node.src
    \o <<")", "\n">>
    \o (IF node.poster # <<>>
          THEN <<"!", "[", "P", "o", "s", "t", "e", "r", "]", "(">>
                 \o node.poster \o <<")", "\n">>
          ELSE <<>>)
    \o (IF node.controls
          THEN <<"C", "o", "n", "t", "r", "o", "l", "s", ":", " ",
                 "t", "r", "u", "e", "\n">>
          ELSE <<>>)
    \o <<"\n">>

\* the callback of row.cells.forEach of case 'table', from cell k on
renderCells(markdownString, cells, options, indentLevel) ==
  IF cells = <<>> THEN markdownString
  ELSE
    LET cell == Head(cells)
        rendered ==
          IF isArrayContent(cell)
            THEN trim(markdownContentASTToString(cell.content, options,
                                                 indentLevel + 1))
            ELSE cell.text
        withColId ==
          IF cell.colId # Absent /\ cell.colId # <<>>
            THEN rendered \o <<" ", "<", "!", "-", "-", " ">> \o cell.colId
                   \o <<" ", "-", "-", ">">>
            ELSE rendered
        withColspan ==
          IF cell.colspan > 1
            THEN withColId
                   \o <<" ", "<", "!", "-", "-", " ", "c", "o", "l", "s",
                        "p", "a", "n", ":", " ">>
                   \o NumToString(cell.colspan) \o <<" ", "-", "-", ">">>
            ELSE withColId
        cellContent ==
          IF cell.rowspan > 1
            THEN withColspan
                   \o <<" ", "<", "!", "-", "-", " ", "r", "o", "w", "s",
                        "p", "a", "n", ":", " ">>
                   \o NumToString(cell.rowspan) \o <<" ", "-", "-", ">">>
            ELSE withColspan
        emptyCells ==
          Concat([i \in 1..((IF cell.colspan # 0 THEN cell.colspan ELSE 1)
                              - 1) |-> <<"|", " ">>])
    IN renderCells(markdownString \o <<"|", " ">> \o cellContent \o <<" ">>
                     \o emptyCells,
                   Tail(cells), options, indentLevel)

\* a row closed without the cells that fill it up to maxColumns
renderRowUnpadded(markdownString, row, maxColumns, options, indentLevel) ==
  renderCells(markdownString, row.cells, options, indentLevel)
    \o <<"|", "\n">>

\* the callback of node.rows.forEach of case 'table'
renderRow(markdownString, row, maxColumns, options, indentLevel) ==
  LET currentColumn == rowColumns(row.cells)
      padding ==
        Concat([i \in 1..(maxColumns - currentColumn) |-> <<"|", " ", " ">>])
  IN renderCells(markdownString, row.cells, options, indentLevel)
       \o padding \o <<"|", "\n">>

RECURSIVE renderRows(_, _, _, _, _)
renderRows(markdownString, rows, maxColumns, options, indentLevel) ==
  IF rows = <<>> THEN markdownString
  ELSE renderRows(renderRow(markdownString, Head(rows), maxColumns, options,
                            indentLevel),
                  Tail(rows), maxColumns, options, indentLevel)

\* case 'table'
renderTable(markdownString, node, options, indentLevel) ==
  IF node.rows = <<>>
    THEN markdownString \o <<"\n">>
    ELSE renderRows(markdownString, node.rows, maxColumnsOf(node.rows),
                    options, indentLevel) \o <<"\n">>

\* case 'code'
renderCode(markdownString, node) ==
  IF node.inline
    THEN (IF markdownString # <<>>
               /\ markdownString[Len(markdownString)] \in Whitespace
            THEN markdownString
            ELSE markdownString \o <<" ">>)
           \o <<Backtick>> \o node.text \o <<Backtick>>
    ELSE markdownString \o <<"\n", Backtick, Backtick, Backtick>>
           \o (IF node.language # Absent THEN node.language ELSE <<>>)
           \o <<"\n">> \o node.text
           \o <<"\n", Backtick, Backtick, Backtick, "\n", "\n">>

\* the name of a region type as a string of characters
htmlTypeName(htmlType) ==
  CASE htmlType = "summary" -> <<"s", "u", "m", "m", "a", "r", "y">>
    [] htmlType = "time" -> <<"t", "i", "m", "e">>
    [] htmlType = "aside" -> <<"a", "s", "i", "d", "e">>
    [] htmlType = "nav" -> <<"n", "a", "v">>
    [] htmlType = "figcaption" ->
         <<"f", "i", "g", "c", "a", "p", "t", "i", "o", "n">>
    [] htmlType = "main" -> <<"m", "a", "i", "n">>
    [] htmlType = "mark" -> <<"m", "a", "r", "k">>
    [] htmlType = "header" -> <<"h", "e", "a", "d", "e", "r">>
    [] htmlType = "footer" -> <<"f", "o", "o", "t", "e", "r">>
    [] htmlType = "details" -> <<"d", "e", "t", "a", "i", "l", "s">>
    [] htmlType = "figure" -> <<"f", "i", "g", "u", "r", "e">>

\* the region with its content put after the closing marker
renderSemanticHtmlClosedEarly(markdownString, node, options) ==
  LET content == markdownContentASTToString(node.content, options, 0)
  IN CASE node.htmlType = "article" ->
            markdownString \o <<"\n", "\n">> \o content
       [] node.htmlType = "section" ->
            markdownString \o <<"-", "-", "-", "\n", "\n">> \o content
              \o <<"\n", "\n">> \o <<"-", "-", "-", "\n", "\n">>
       [] OTHER ->
            markdownString \o <<"\n", "\n", "<", "-">>
              \o htmlTypeName(node.htmlType) \o <<"-", ">", "\n">>
              \o <<"\n", "\n", "<", "/", "-">>
              \o htmlTypeName(node.htmlType) \o <<"-", ">", "\n">>
              \o content

\* case 'semanticHtml'
renderSemanticHtml(markdownString, node, options) ==
  LET content == markdownContentASTToString(node.content, options, 0)
  IN CASE node.htmlType = "article" ->
            markdownString \o <<"\n", "\n">> \o content
       [] node.htmlType = "section" ->
            markdownString \o <<"-", "-", "-", "\n", "\n">> \o content
              \o <<"\n", "\n">> \o <<"-", "-", "-", "\n", "\n">>
       [] OTHER ->
            markdownString \o <<"\n", "\n", "<", "-">>
              \o htmlTypeName(node.htmlType) \o <<"-", ">", "\n">>
              \o content \o <<"\n", "\n", "<", "/", "-">>
              \o htmlTypeName(node.htmlType) \o <<"-", ">", "\n">>

\* the body of nodes.forEach in markdownContentASTToString: markdownString
\* after one node
\* the switch on node.type
renderDefault(markdownString, node, options, indentLevel) ==
  CASE node.type \in InlineTypes ->
         renderInline(markdownString, node, options, indentLevel)
    [] node.type = "heading" ->
         renderHeading(markdownString, node, options, indentLevel)
    [] node.type = "image" -> renderImage(markdownString, node)
    [] node.type = "list" ->
         renderList(markdownString, node, options, indentLevel)
    [] node.type = "video" -> renderVideo(markdownString, node)
    [] node.type = "table" ->
         renderTable(markdownString, node, options, indentLevel)
    [] node.type = "code" -> renderCode(markdownString, node)
    [] node.type = "blockquote" ->
         markdownString \o <<">", " ">>
           \o trim(markdownContentASTToString(node.content, options, 0))
           \o <<"\n", "\n">>
    [] node.type = "semanticHtml" ->
         renderSemanticHtml(markdownString, node, options)
    [] node.type = "custom" ->
         LET customNodeRendering ==
               callRenderer(options.renderCustomNode, node)
         IN IF isTruthyString(customNodeRendering)
              THEN markdownString \o customNodeRendering.text
              ELSE markdownString
    [] OTHER -> markdownString

\* the callback of nodes.forEach in markdownContentASTToString
renderNode(markdownString, node, options, indentLevel) ==
  LET nodeRenderingOverride ==
        callRenderer(options.overrideNodeRenderer, node)
  IN IF isTruthyString(nodeRenderingOverride)
       THEN markdownString \o nodeRenderingOverride.text
       ELSE renderDefault(markdownString, node, options, indentLevel)

renderNodes(markdownString, nodes, options, indentLevel) ==
  IF nodes = <<>> THEN markdownString
  ELSE renderNodes(renderNode(markdownString, Head(nodes), options,
                              indentLevel),
                   Tail(nodes), options, indentLevel)

markdownContentASTToString(nodes, options, indentLevel) ==
  renderNodes(<<>>, nodes, options, indentLevel)

(***************************************************************************)
(* Front matter (core/markdownASTToString.ts, markdownMetaASTToString) and *)
(* the search it uses (core/astUtils.ts, findInAST).                       *)
(***************************************************************************)

UnknownType == <<"(", "u", "n", "k", "n", "o", "w", "n", " ", "t", "y", "p", "e", ")">>
OpenGraphLine == <<"o", "p", "e", "n", "G", "r", "a", "p", "h", ":", "\n">>
TwitterLine == <<"t", "w", "i", "t", "t", "e", "r", ":", "\n">>
SchemaLine == <<"s", "c", "h", "e", "m", "a", ":", "\n">>
FrontMatterOpen == <<"-", "-", "-", "\n">>
FrontMatterClose == <<"-", "-", "-", "\n", "\n">>

RECURSIVE findInNodes(_, _)
RECURSIVE findInNode(_, _)

\* loopCheck of findInAST: the first hit among the elements, <<>> for
\* undefined
findInNodes(z, type) ==
  IF z = <<>> THEN <<>>
  ELSE LET found == findInNode(Head(z), type)
       IN IF found # <<>> THEN found ELSE findInNodes(Tail(z), type)

\* findInAST of one node with the checker _ => _.type === type
findInNode(markdownElement, type) ==
  IF markdownElement.type = type THEN <<markdownElement>>
  ELSE CASE markdownElement.type = "link" ->
              findInNodes(markdownElement.content, type)
         [] markdownElement.type = "list" ->
              findInNodes(Concat([i \in 1..Len(markdownElement.items) |->
                                    markdownElement.items[i].content]),
                          type)
         [] markdownElement.type = "table" ->
              findInNodes(
                Concat([r \in 1..Len(markdownElement.rows) |->
                  Concat([c \in 1..Len(markdownElement.rows[r].cells) |->
                    IF isArrayContent(markdownElement.rows[r].cells[c])
                      THEN markdownElement.rows[r].cells[c].content
                      ELSE <<>>])]),
                type)
         [] markdownElement.type \in {"blockquote", "semanticHtml"} ->
              findInNodes(markdownElement.content, type)
         [] OTHER -> <<>>

\* findInMarkdownAST(nodes, _ => _.type === type)
findInMarkdownAST(nodes, type) == findInNodes(nodes, type)

\* JSON.stringify of a string
jsonStringifyChar(c) ==
  CASE c = "\"" -> <<"\\", "\"">>
    [] c = "\\" -> <<"\\", "\\">>
    [] c = "\n" -> <<"\\", "n">>
    [] c = "\t" -> <<"\\", "t">>
    [] OTHER -> <<c>>

jsonStringify(value) ==
  <<"\"">> \o Concat([k \in 1..Len(value) |-> jsonStringifyChar(value[k])])
    \o <<"\"">>

\* the lines key: "value" of the entries of an object, each after an indent
entryLines(pairs, indent) ==
  Concat([k \in 1..Len(pairs) |->
            indent \o pairs[k].key \o <<":", " ">>
              \o jsonStringify(pairs[k].value) \o <<"\n">>])

\* the lines of node.content.jsonLd
schemaLines(entries) ==
  Concat([k \in 1..Len(entries) |->
            <<" ", " ">>
              \o (IF entries[k].type # Absent THEN entries[k].type
                   ELSE UnknownType)
              \o <<":", "\n">>
              \o entryLines(entries[k].members, <<" ", " ", " ", " ">>)])

\* what markdownMetaASTToString collects from the content of a meta node
metaLines(content) ==
  (IF content.standard # <<>>
     THEN entryLines(content.standard, <<>>) ELSE <<>>)
    \o (IF content.openGraph # <<>>
          THEN OpenGraphLine \o entryLines(content.openGraph, <<" ", " ">>)
          ELSE <<>>)
    \o (IF content.twitter # <<>>
          THEN TwitterLine \o entryLines(content.twitter, <<" ", " ">>)
          ELSE <<>>)
    \o (IF content.jsonLd.defined
          THEN SchemaLine \o schemaLines(content.jsonLd.entries)
          ELSE <<>>)

markdownMetaASTToString(nodes, options) ==
  IF options.emitFrontMatter
    THEN LET node == findInMarkdownAST(nodes, "meta")
             markdownString_ ==
               IF node # <<>> THEN metaLines(node[1].meta) ELSE <<>>
         IN IF Len(markdownString_) > 0
              THEN FrontMatterOpen \o markdownString_ \o FrontMatterClose
              ELSE <<>>
    ELSE <<>>

markdownASTToString(nodes, options) ==
  markdownMetaASTToString(nodes, options)
    \o markdownContentASTToString(nodes, options, 0)

(***************************************************************************)
(* The main-content locator (core/domUtils.ts).  A document is its         *)
(* documentElement; an element of a document is named by its path, the     *)
(* child indexes that lead to it from the documentElement, so that two     *)
(* elements that look alike are still two elements.                        *)
(***************************************************************************)

RECURSIVE nodeAt(_, _)
nodeAt(root, path) ==
  IF path = <<>> THEN root
  ELSE nodeAt(root.childNodes[Head(path)], Tail(path))

\* the paths of the element descendants of the node at path, document order
RECURSIVE elementPaths(_, _)
elementPaths(node, path) ==
  Concat([k \in 1..Len(node.childNodes) |->
            IF node.childNodes[k].nodeType = "element"
              THEN <<path \o <<k>>>>
                     \o elementPaths(node.childNodes[k], path \o <<k>>)
              ELSE <<>>])

\* null for an element: no path (0 is no child index)
null == <<0>>

\* Node.contains: a is b or an ancestor of b
contains(a, b) == Len(a) <= Len(b) /\ SubSeq(b, 1, Len(a)) = a

\* document.querySelector(tag): the first match in document order, or null
querySelector(document, tag) ==
  LET all == <<<<>>>> \o elementPaths(document, <<>>)
      hits == SelectSeq(all, LAMBDA q : nodeAt(document, q).tagName = tag)
  IN IF hits = <<>> THEN null ELSE hits[1]

\* document.body, or null
bodyOf(document) ==
  LET hits == SelectSeq([k \in 1..Len(document.childNodes) |-> <<k>>],
                        LAMBDA q : nodeAt(document, q).tagName = "body")
  IN IF hits = <<>> THEN null ELSE hits[1]

highImpactAttributes ==
  << <<"a", "r", "t", "i", "c", "l", "e">>,
     <<"c", "o", "n", "t", "e", "n", "t">>,
     <<"m", "a", "i", "n", "-", "c", "o", "n", "t", "a", "i", "n", "e", "r">>,
     <<"m", "a", "i", "n">>,
     <<"m", "a", "i", "n", "-", "c", "o", "n", "t", "e", "n", "t">> >>

highImpactTags == {"article", "main", "section"}

\* element.classList: the tokens of the class attribute
classList(element) ==
  LET tokens == split(reflected(element, "class"), " ")
  IN {tokens[k] : k \in 1..Len(tokens)} \ {<<>>}

RECURSIVE sumLengths(_)
sumLengths(nodes) ==
  IF nodes = <<>> THEN 0
  ELSE Len(textContent(Head(nodes))) + sumLengths(Tail(nodes))

\* calculateLinkDensity(element) < 0.3, in integers
linkDensityBelowThreshold(element) ==
  LET linkLength == sumLengths(querySelectorAll(element, {"a"}))
      textLength == IF Len(textContent(element)) = 0
                      THEN 1
                      ELSE Len(textContent(element))
  IN linkLength * 10 < 3 * textLength

Min(a, b) == IF a < b THEN a ELSE b

\* the cap written as a cut-off: more than 5 paragraphs count for nothing
paragraphScoreCutOff(element) ==
  IF Len(querySelectorAll(element, {"p"})) > 5
    THEN 0
    ELSE Len(querySelectorAll(element, {"p"}))

paragraphScore(element) == Min(Len(querySelectorAll(element, {"p"})), 5)

textScore(element) ==
  LET textContentLength == Len(trim(textContent(element)))
  IN IF textContentLength > 200
       THEN Min(textContentLength \div 200, 5)
       ELSE 0

calculateScore(element) ==
  LET attributeScore ==
        10 * Cardinality({k \in 1..Len(highImpactAttributes) :
                            \/ highImpactAttributes[k] \in classList(element)
                            \/ includes(reflected(element, "id"),
                                        highImpactAttributes[k])})
      tagScore == IF element.tagName \in highImpactTags THEN 5 ELSE 0
      densityScore == IF linkDensityBelowThreshold(element) THEN 5 ELSE 0
      dataScore ==
        IF hasAttribute(element, "data-main")
             \/ hasAttribute(element, "data-content")
          THEN 10 ELSE 0
      roleScore ==
        IF hasAttribute(element, "role")
             /\ includes(element.attrs["role"], <<"m", "a", "i", "n">>)
          THEN 10 ELSE 0
  IN attributeScore + tagScore + paragraphScore(element)
       + textScore(element) + densityScore + dataScore + roleScore

minScore == 20

\* collectCandidates: the root and its descendants that score >= minScore
collectCandidates(document, rootPath) ==
  SelectSeq(<<rootPath>> \o elementPaths(nodeAt(document, rootPath), rootPath),
            LAMBDA q : calculateScore(nodeAt(document, q)) >= minScore)

\* candidates.sort((a, b) => calculateScore(b) - calculateScore(a)): a
\* stable sort by descending score
RECURSIVE insertByScore(_, _, _)
insertByScore(document, sorted, q) ==
  IF sorted = <<>> THEN <<q>>
  ELSE IF calculateScore(nodeAt(document, Head(sorted)))
            >= calculateScore(nodeAt(document, q))
    THEN <<Head(sorted)>> \o insertByScore(document, Tail(sorted), q)
    ELSE <<q>> \o sorted

RECURSIVE sortByScore(_, _)
sortByScore(document, candidates) ==
  IF candidates = <<>> THEN <<>>
  ELSE insertByScore(document,
                     sortByScore(document,
                                 SubSeq(candidates, 1, Len(candidates) - 1)),
                     candidates[Len(candidates)])

\* the loop of detectMainContent from index i on
RECURSIVE bestIndependentCandidate(_, _, _, _)
bestIndependentCandidate(document, candidates, i, best) ==
  IF i > Len(candidates) THEN best
  ELSE IF /\ ~\E j \in 1..Len(candidates) :
                j # i /\ contains(candidates[j], candidates[i])
          /\ calculateScore(nodeAt(document, candidates[i]))
               > calculateScore(nodeAt(document, best))
    THEN bestIndependentCandidate(document, candidates, i + 1, candidates[i])
    ELSE bestIndependentCandidate(document, candidates, i + 1, best)

detectMainContent(document, rootPath) ==
  LET candidates == sortByScore(document,
                                collectCandidates(document, rootPath))
  IN IF candidates = <<>> THEN rootPath
     ELSE bestIndependentCandidate(document, candidates, 2, candidates[1])

\* findMainContent without the early return for an explicit main element
findMainContentScoringOnly(document) ==
  IF bodyOf(document) = null THEN <<>>
  ELSE detectMainContent(document, bodyOf(document))

findMainContent(document) ==
  LET mainElement == querySelector(document, "main")
  IN IF mainElement # null THEN mainElement
     ELSE IF bodyOf(document) = null THEN <<>>
     ELSE detectMainContent(document, bodyOf(document))

(***************************************************************************)
(* The inputs: bounded families of parsed documents, each paired with the  *)
(* options that matter for it.                                             *)
(***************************************************************************)

MaxInline == 2
MaxAnchorChildren == 2
MaxItems == 3
MaxRows == 2

\* the sequences of length 0..n over a set
RECURSIVE SeqsUpTo(_, _)
SeqsUpTo(S, n) ==
  IF n = 0 THEN {<<>>}
  ELSE LET shorter == SeqsUpTo(S, n - 1)
       IN shorter \cup {Append(q, x) : q \in shorter, x \in S}

E(tagName, childNodes) == Element(tagName, NoAttrs, childNodes)

\* the document of a body with the given child nodes
Page(childNodes) == E("html", <<E("body", childNodes)>>)

sHello == <<"H", "e", "l", "l", "o", " ">>
sWorld == <<"w", "o", "r", "l", "d">>
sStar == <<"a", "*", "b">>
sHref == <<"/", "x", " ", "y">>

InlineAtoms ==
  {TextNode(sHello), TextNode(<<".">>), TextNode(<<"!">>),
   E("b", <<TextNode(sWorld)>>), E("i", <<TextNode(<<";">>)>>),
   E("s", <<TextNode(<<" ", "x">>)>>), E("br", <<>>),
   Element("a", Attrs([href |-> sHref]), <<TextNode(<<"t">>)>>)}

InlineDocs ==
  {Page(<<E("p", q)>>) : q \in SeqsUpTo(InlineAtoms, MaxInline)}

AnchorAtoms ==
  {TextNode(sStar), TextNode(<<" ">>), CommentNode(<<"c">>),
   E("span", <<TextNode(<<"t">>)>>), E("b", <<TextNode(<<"&">>)>>),
   E("span", <<>>), Element("img", Attrs([src |-> sHref]), <<>>)}

AnchorHrefs == {Attrs([href |-> sHref]), Attrs([href |-> DataImage]), NoAttrs}

AnchorDocs ==
  {Page(<<Element("a", h, q)>>) :
     h \in AnchorHrefs, q \in SeqsUpTo(AnchorAtoms, MaxAnchorChildren)}

ItemAtoms ==
  {E("li", <<TextNode(<<"A">>)>>), E("li", <<>>),
   E("li", <<TextNode(<<" ", "B", "|">>)>>), E("li", <<E("br", <<>>)>>),
   E("li", <<E("b", <<TextNode(<<"c">>)>>), TextNode(<<"d">>)>>)}

ListDocs ==
  {Page(before \o <<E(tagName, q)>>) :
     before \in {<<>>, <<TextNode(<<"x">>)>>},
     tagName \in {"ul", "ol"},
     q \in SeqsUpTo(ItemAtoms, MaxItems)}

Cell(tagName, colspan, text) ==
  Element(tagName,
          IF colspan = <<>> THEN NoAttrs ELSE Attrs([colspan |-> colspan]),
          IF text = <<>> THEN <<>> ELSE <<TextNode(text)>>)

RowShapes ==
  { <<>>,
    <<Cell("th", <<>>, <<"H">>)>>,
    <<Cell("th", <<>>, <<"H">>), Cell("th", <<>>, <<"G">>)>>,
    <<Cell("th", <<"2">>, <<"H">>), Cell("td", <<>>, <<"|">>)>>,
    <<Cell("td", <<>>, <<"a">>), Cell("td", <<>>, <<"b">>)>>,
    <<Cell("td", <<"3">>, <<"a">>)>>,
    <<Cell("td", <<"1">>, <<>>), Cell("td", <<"2">>, <<"b">>),
      Cell("td", <<>>, <<"c">>)>> }

TableDocs ==
  {Page(<<E("table", [r \in 1..Len(q) |-> E("tr", q[r])])>>) :
     q \in SeqsUpTo(RowShapes, MaxRows) \ {<<>>}}

LocatorAtoms ==
  {E("main", <<TextNode(<<"m">>)>>),
   Element("div",
           Attrs([id |-> <<"m", "a", "i", "n", "-", "c", "o", "n", "t", "e",
                           "n", "t">>]),
           <<TextNode(<<"d">>)>>),
   E("section", <<E("main", <<TextNode(<<"n">>)>>)>>),
   Element("article",
           Attrs([class |-> <<"c", "o", "n", "t", "e", "n", "t">>,
                  role |-> <<"m", "a", "i", "n">>]),
           <<E("p", <<TextNode(<<"p">>)>>)>>),
   Element("div",
           Attrs([id |-> <<"c", "o", "n", "t", "e", "n", "t">>]
                   @@ ("data-main" :> <<>>)),
           <<Element("article",
                     Attrs([class |-> <<"c", "o", "n", "t", "e", "n", "t">>,
                            role |-> <<"m", "a", "i", "n">>]),
                     <<E("p", <<TextNode(<<"q">>)>>)>>)>>),
   E("div", <<TextNode(<<"t">>)>>)}

LocatorDocs ==
  {Page(q) : q \in SeqsUpTo(LocatorAtoms, 2)}
    \cup {E("html", q) : q \in SeqsUpTo(LocatorAtoms, 1)}

sDescription ==
  <<"d", "e", "s", "c", "r", "i", "p", "t", "i", "o", "n">>

MetaTag(given) == Element("meta", Attrs(given), <<>>)

\* heads: empty, with a title to escape, with meta tags of every kind
MetaHeads ==
  {E("head", <<>>),
   E("head", <<E("title", <<TextNode(<<"T", "*">>)>>)>>),
   E("head",
     <<MetaTag([name |-> sDescription, content |-> <<"d", "\"">>]),
       MetaTag([property |-> OgPrefix \o <<"t">>, content |-> <<"o">>]),
       MetaTag([name |-> TwitterPrefix \o <<"c">>, content |-> <<"w">>]),
       MetaTag([name |-> <<"v", "i", "e", "w", "p", "o", "r", "t">>,
                content |-> <<"1">>]),
       MetaTag([name |-> sDescription])>>)}

MetaBodies ==
  {E("body", <<E("p", <<TextNode(<<"x">>)>>)>>),
   E("body", <<E("main", <<TextNode(<<"m">>)>>), TextNode(<<"y">>)>>),
   E("body",
     <<Element("article",
               Attrs([class |-> <<"c", "o", "n", "t", "e", "n", "t">>,
                      role |-> <<"m", "a", "i", "n">>]),
               <<E("p", <<TextNode(<<"p">>)>>)>>),
       TextNode(<<"z">>)>>)}

MetaDocs == {E("html", <<h, b>>) : h \in MetaHeads, b \in MetaBodies}

MetaOptions ==
  {[DefaultOptions EXCEPT !.includeMetaData = m,
                          !.emitFrontMatter = f,
                          !.extractMainContent = x] :
     m \in {"basic", "extended"}, f \in BOOLEAN, x \in BOOLEAN}

\* the inputs of a conversion: a parsed document and the caller's options
Inputs ==
  (InlineDocs \X {DefaultOptions})
    \cup (AnchorDocs \X {[DefaultOptions EXCEPT !.overrideDOMParser = b] :
                           b \in BOOLEAN})
    \cup (ListDocs \X {DefaultOptions})
    \cup (TableDocs \X {[DefaultOptions EXCEPT
                           !.enableTableColumnTracking = b] :
                          b \in BOOLEAN})
    \cup (LocatorDocs \X {[DefaultOptions EXCEPT !.extractMainContent = b] :
                            b \in BOOLEAN})
    \cup (MetaDocs \X MetaOptions)

(***************************************************************************)
(* The state machine of one call of convertHtmlToMarkdown (index.ts).      *)
(***************************************************************************)

VARIABLES
  doc,             \* the document the parser returns for the html argument
  options,         \* the options argument
  hostDOMParser,   \* whether the host defines DOMParser
  pc,              \* the position of the call
  element,         \* the path of the element to convert, null before
  ast,             \* the translator's result
  next,            \* the index of the next node of ast to render
  markdownString,  \* the renderer's accumulated output
  scored,          \* the element calculateScore is applied to
  score,           \* the value calculateScore returned for it
  urlMap,          \* options.urlMap of the options object the caller keeps:
                   \* whether it is defined, and its entries
  callOptions,     \* the options of the calls of convertElementToMarkdown
  callElement,     \* the element of the last such call
  callAst,         \* the AST of the last call, as the renderer got it
  callOutput,      \* the string the last call returned
  calls,           \* the number of calls made with the options object
  processed        \* the URLs handed to processUrl so far, in order

callVars ==
  <<doc, options, hostDOMParser, pc, element, ast, next, markdownString>>

scoreVars == <<scored, score>>

refVars ==
  <<urlMap, callOptions, callElement, callAst, callOutput, calls, processed>>

vars == <<callVars, scoreVars, refVars>>

\* options.urlMap before any call: undefined
undefinedMap == [defined |-> FALSE, entries |-> <<>>]

\* no call of convertElementToMarkdown made yet, options.urlMap undefined
NoCalls ==
  /\ urlMap = undefinedMap
  /\ callOptions = DefaultOptions
  /\ callElement = E("body", <<>>)
  /\ callAst = <<>>
  /\ callOutput = <<>>
  /\ calls = 0
  /\ processed = <<>>

Init ==
  /\ \E input \in Inputs : doc = input[1] /\ options = input[2]
  /\ hostDOMParser \in BOOLEAN
  /\ pc = "start"
  /\ element = null
  /\ ast = <<>>
  /\ next = 1
  /\ markdownString = <<>>
  /\ scored = E("body", <<>>)
  /\ score = calculateScore(scored)
  /\ NoCalls

\* a parser taken for granted
parserAssumed(opts, host) == TRUE

\* options?.overrideDOMParser ?? (typeof DOMParser !== 'undefined' ? ...)
parserAvailable(opts, host) == opts.overrideDOMParser \/ host

\* convertHtmlToMarkdown without a parser: throws
ThrowNoParser ==
  /\ pc = "start"
  /\ ~parserAvailable(options, hostDOMParser)
  /\ pc' = "thrown"
  /\ UNCHANGED <<doc, options, hostDOMParser, element, ast, next,
                 markdownString, scoreVars, refVars>>

\* !!doc.querySelector('head')?.innerHTML: a head element that serialises
\* to something
headHasInnerHTML(document) ==
  LET head == querySelector(document, "head")
  IN /\ head # null
     /\ \E k \in 1..Len(nodeAt(document, head).childNodes) :
          LET n == nodeAt(document, head).childNodes[k]
          IN ~isTextNode(n) \/ n.data # <<>>

\* the main content is parsed again behind the head of the document
reattachesHead(document, e, opts) ==
  /\ opts.extractMainContent
  /\ opts.includeMetaData # NoMetaData
  /\ headHasInnerHTML(document)
  /\ querySelectorAll(nodeAt(document, e), {"head"}) = <<>>

\* parser.parseFromString('<html>' + doc.head.outerHTML + element.outerHTML)
\* .documentElement: the head, and a body that is the element or holds it
reattached(document, e) ==
  E("html",
    <<nodeAt(document, querySelector(document, "head")),
      IF nodeAt(document, e).tagName = "body" THEN nodeAt(document, e)
      ELSE E("body", <<nodeAt(document, e)>>)>>)

\* the element convertHtmlToMarkdown hands to convertElementToMarkdown, for
\* the path e that the selection left in element
elementNode(document, e, opts) ==
  IF reattachesHead(document, e, opts) THEN reattached(document, e)
  ELSE nodeAt(document, e)

\* convertHtmlToMarkdown with a parser: parse, then choose the element
SelectElement ==
  /\ pc = "start"
  /\ parserAvailable(options, hostDOMParser)
  /\ element' = IF options.extractMainContent
                  THEN findMainContent(doc)
                  ELSE IF /\ options.includeMetaData # NoMetaData
                          /\ headHasInnerHTML(doc)
                         THEN <<>>
                  ELSE IF bodyOf(doc) # null THEN bodyOf(doc) ELSE <<>>
  /\ pc' = "selected"
  /\ UNCHANGED <<doc, options, hostDOMParser, ast, next, markdownString,
                 scoreVars, refVars>>

\* convertElementToMarkdown: htmlToMarkdownAST(element, options)
Translate ==
  /\ pc = "selected"
  /\ ast' = htmlToMarkdownAST(elementNode(doc, element, options), options,
                              0)
  /\ pc' = "rendering"
  /\ UNCHANGED <<doc, options, hostDOMParser, element, next, markdownString,
                 scoreVars, refVars>>

\* one iteration of nodes.forEach in markdownContentASTToString(ast)
RenderNext ==
  /\ pc = "rendering"
  /\ next <= Len(ast)
  /\ markdownString' = renderNode(markdownString, ast[next], options, 0)
  /\ next' = next + 1
  /\ UNCHANGED <<doc, options, hostDOMParser, pc, element, ast, scoreVars, refVars>>

\* markdownASTToString returns the front matter followed by what
\* markdownContentASTToString accumulated
Return ==
  /\ pc = "rendering"
  /\ next > Len(ast)
  /\ markdownString' = markdownMetaASTToString(ast, options) \o markdownString
  /\ pc' = "returned"
  /\ UNCHANGED <<doc, options, hostDOMParser, element, ast, next,
                 scoreVars, refVars>>

Next == ThrowNoParser \/ SelectElement \/ Translate \/ RenderNext \/ Return

Spec == Init /\ [][Next]_vars

(***************************************************************************)
(* calculateScore applied to an element that grows: paragraphs are         *)
(* appended, text is appended outside and inside its links.  Nothing else  *)
(* of the element changes.                                                 *)
(***************************************************************************)

MaxParagraphs == 6
TextStep == 100
MaxTextLength == 1300
LinkStep == 60
MaxLinkLength == 120

\* the children of a scored element: its text, its link, its paragraphs
ScoredChildren(text, linkText, paragraphs) ==
  <<TextNode(text), E("a", <<TextNode(linkText)>>)>>
    \o [k \in 1..paragraphs |-> E("p", <<>>)]

ScoreSeeds ==
  {Element(tagName, attrs, ScoredChildren(text, <<>>, 0)) :
     tagName \in {"div", "section"},
     attrs \in {NoAttrs,
                Attrs([id |-> <<"m", "a", "i", "n">>,
                       role |-> <<"m", "a", "i", "n">>]),
                Attrs([id |-> <<"m", "a", "i", "n", "-", "c", "o", "n", "t",
                                "e", "n", "t">>]),
                Attrs([class |-> <<"m", "a", "i", "n", " ", "a", "r", "t",
                                   "i", "c", "l", "e">>])},
     text \in {<<>>, <<"x">>}}

InitScore ==
  /\ doc = Page(<<>>)
  /\ options = DefaultOptions
  /\ hostDOMParser = TRUE
  /\ pc = "start"
  /\ element = null
  /\ ast = <<>>
  /\ next = 1
  /\ markdownString = <<>>
  /\ scored \in ScoreSeeds
  /\ score = calculateScore(scored)
  /\ NoCalls

scoredText == scored.childNodes[1].data
scoredLinkText == scored.childNodes[2].childNodes[1].data
scoredParagraphs == Len(scored.childNodes) - 2

Rescore(text, linkText, paragraphs) ==
  /\ scored' = [scored EXCEPT
                  !.childNodes = ScoredChildren(text, linkText, paragraphs)]
  /\ score' = calculateScore(scored')
  /\ UNCHANGED <<callVars, refVars>>

\* one more descendant p element
AppendParagraph ==
  /\ scoredParagraphs < MaxParagraphs
  /\ Rescore(scoredText, scoredLinkText, scoredParagraphs + 1)

\* more text outside the links
AppendText ==
  /\ Len(scoredText) + TextStep <= MaxTextLength
  /\ Rescore(scoredText \o [k \in 1..TextStep |-> "x"], scoredLinkText,
             scoredParagraphs)

\* more text inside a link: the link density grows too
AppendLinkText ==
  /\ Len(scoredLinkText) + LinkStep <= MaxLinkLength
  /\ Rescore(scoredText, scoredLinkText \o [k \in 1..LinkStep |-> "y"],
             scoredParagraphs)

NextScore == AppendParagraph \/ AppendText \/ AppendLinkText

SpecScore == InitScore /\ [][NextScore]_vars

(***************************************************************************)
(* The claims.                                                             *)
(***************************************************************************)

\* p comes before q in document order
docBefore(p, q) ==
  \/ Len(p) < Len(q) /\ SubSeq(q, 1, Len(p)) = p
  \/ \E k \in 1..Min(Len(p), Len(q)) :
       p[k] < q[k] /\ SubSeq(p, 1, k - 1) = SubSeq(q, 1, k - 1)

allPaths(document) ==
  LET all == <<<<>>>> \o elementPaths(document, <<>>)
  IN {all[k] : k \in 1..Len(all)}

mainPaths(document) ==
  {q \in allPaths(document) : nodeAt(document, q).tagName = "main"}

selected == pc \in {"selected", "rendering", "returned"}

\* C1: when the document holds a main element, findMainContent returns the
\* first main element in document order, whatever the elements score.
C1_ExplicitMainReturned ==
  (selected /\ options.extractMainContent /\ mainPaths(doc) # {})
    => /\ element \in mainPaths(doc)
       /\ \A q \in mainPaths(doc) : q = element \/ docBefore(element, q)

\* C1 witness: a main element was returned although an element before it
\* scores higher and reaches the candidate threshold.
C1_Witness ==
  /\ selected /\ options.extractMainContent
  /\ element \in mainPaths(doc)
  /\ \E q \in allPaths(doc) :
       /\ docBefore(q, element)
       /\ ~contains(q, element)
       /\ calculateScore(nodeAt(doc, q)) >= minScore
       /\ calculateScore(nodeAt(doc, q))
            > calculateScore(nodeAt(doc, element))

densityTerm(e) == IF linkDensityBelowThreshold(e) THEN 5 ELSE 0

\* C2: the score is never negative, and a step that adds a paragraph or
\* text and leaves the link-density term as it was never lowers the score.
C2_ScoreMonotone ==
  /\ [](score >= 0)
  /\ [][densityTerm(scored') = densityTerm(scored) => score' >= score]_vars

\* C2 witness: an element past both caps (more than 5 paragraphs, more than
\* 1000 characters of text) has been scored, each term contributing 5.
C2_Witness ==
  /\ Len(querySelectorAll(scored, {"p"})) > 5
  /\ Len(trim(textContent(scored))) > 1000
  /\ scored.tagName = "div" /\ ~hasAttribute(scored, "id")
  /\ score = 10 + densityTerm(scored)


translated == pc \in {"rendering", "returned"}

\* every node of an AST, parents before children
RECURSIVE astNodes(_)
astNodes(nodes) ==
  Concat([k \in 1..Len(nodes) |->
    LET node == nodes[k]
    IN <<node>> \o
       (IF node.type = "list"
          THEN Concat([i \in 1..Len(node.items) |->
                         astNodes(node.items[i].content)])
        ELSE IF node.type = "table"
          THEN Concat([r \in 1..Len(node.rows) |->
                 Concat([c \in 1..Len(node.rows[r].cells) |->
                   IF isArrayContent(node.rows[r].cells[c])
                     THEN astNodes(node.rows[r].cells[c].content)
                     ELSE <<>>])])
        ELSE IF isArrayContent(node) THEN astNodes(node.content)
        ELSE <<>>)])

\* the only child of the body, when the body has exactly one child
onlyChild ==
  IF /\ translated
     /\ element # null
     /\ Len(elementNode(doc, element, options).childNodes) = 1
    THEN elementNode(doc, element, options).childNodes[1]
    ELSE TextNode(<<>>)

tableRendered ==
  /\ translated
  /\ isElement(onlyChild) /\ onlyChild.tagName = "table"
  /\ Len(ast) = 1 /\ ast[1].type = "table"
  /\ next = 2

\* the cells a rendered line holds: its unescaped pipes, less the closing one
cellsOnLine(line) ==
  Cardinality({k \in 1..Len(line) :
                 line[k] = "|" /\ (k = 1 \/ line[k - 1] # "\\")}) - 1

widestRow(rows) ==
  CHOOSE m \in {rowColumns(rows[r].cells) : r \in 1..Len(rows)} :
    \A r \in 1..Len(rows) : rowColumns(rows[r].cells) <= m

\* C3: every row of a rendered table is written on its own line with exactly
\* maxColumns cells, maxColumns being the largest sum of colspans over the
\* rows (a cell without colspan counting 1); columns are counted as the cell
\* delimiters the line holds.
C3_RowsHaveMaxColumns ==
  tableRendered =>
    LET rows == ast[1].rows
        lines == split(markdownString, "\n")
    IN /\ Len(lines) = Len(rows) + 2
       /\ \A r \in 1..Len(rows) : cellsOnLine(lines[r]) = widestRow(rows)

\* C3 witness: a rendered table whose widest row spans 3 columns through a
\* colspan, with a narrower row that had to be filled up.
C3_Witness ==
  /\ tableRendered
  /\ widestRow(ast[1].rows) = 3
  /\ \E r \in 1..Len(ast[1].rows) :
       /\ rowColumns(ast[1].rows[r].cells) < 3
       /\ ast[1].rows[r].cells # <<>>
  /\ \E r \in 1..Len(ast[1].rows) :
       \E c \in 1..Len(ast[1].rows[r].cells) :
         ast[1].rows[r].cells[c].colspan > 1
  /\ C3_RowsHaveMaxColumns

anchorRendered ==
  /\ pc = "returned"
  /\ isElement(onlyChild) /\ onlyChild.tagName = "a"
  /\ ast # <<>>

compactForm(link) ==
  <<"[">> \o markdownContentASTToString(link.content, options, 0)
    \o <<"]", "(">> \o encodeURI(link.href) \o <<")">>

htmlForm(link) ==
  <<"<", "a", " ", "h", "r", "e", "f", "=", "\"">> \o link.href
    \o <<"\"", ">">> \o markdownContentASTToString(link.content, options, 0)
    \o <<"<", "/", "a", ">">>

allChildrenText(anchor) ==
  \A k \in 1..Len(anchor.childNodes) : isTextNode(anchor.childNodes[k])

\* C4 as first stated: an anchor whose child nodes are all text nodes renders
\* in the compact form [text](href), and an anchor with any child that is
\* not a text node renders in the HTML form <a href="...">...</a>.
C4_FormFollowsDomChildren ==
  anchorRendered =>
    /\ Len(ast) = 1 /\ ast[1].type = "link"
    /\ IF allChildrenText(onlyChild)
         THEN markdownString = compactForm(ast[1])
         ELSE markdownString = htmlForm(ast[1])

\* C4: a rendered anchor uses the compact form [text](href) exactly when
\* the content translated from it is a single text node, and the HTML form
\* <a href="...">...</a> otherwise; an anchor whose child nodes are all text
\* nodes and whose href is not a data:image URL always has such content.
C4_FormFollowsTranslatedContent ==
  anchorRendered =>
    /\ Len(ast) = 1 /\ ast[1].type = "link"
    /\ IF Len(ast[1].content) = 1 /\ ast[1].content[1].type = "text"
         THEN markdownString = compactForm(ast[1])
         ELSE markdownString = htmlForm(ast[1])
    /\ compactForm(ast[1]) # htmlForm(ast[1])
    /\ (/\ allChildrenText(onlyChild)
        /\ ~startsWith(reflected(onlyChild, "href"), DataImage))
         => markdownString = compactForm(ast[1])

\* C4 witness: an anchor with a child that is not a text node was rendered
\* in the compact form.
C4_Witness ==
  /\ anchorRendered
  /\ ~allChildrenText(onlyChild)
  /\ Len(ast) = 1 /\ ast[1].type = "link"
  /\ markdownString = compactForm(ast[1])

\* the data of every text node below a node, and the text content of every
\* anchor below it
RECURSIVE textSources(_)
textSources(node) ==
  IF isTextNode(node) THEN {node.data}
  ELSE IF ~isElement(node) THEN {}
  ELSE (IF node.tagName = "a" THEN {textContent(node)} ELSE {})
         \cup UNION {textSources(node.childNodes[k]) :
                       k \in 1..Len(node.childNodes)}

\* C5: every AST text node made from DOM text holds that text trimmed and
\* escaped exactly once (the line and paragraph breaks the translator adds
\* itself are not made from DOM text).
C5_TextEscapedOnce ==
  (translated /\ element # null) =>
    \A k \in 1..Len(astNodes(ast)) :
      LET node == astNodes(ast)[k]
      IN (node.type = "text" /\ node \notin {lineBreak, contentBreak})
           => \E source \in textSources(nodeAt(doc, element)) :
                node.text = escapeMarkdownCharacters(trim(source), FALSE)

inlineContent(node) ==
  IF isArrayContent(node)
    THEN markdownContentASTToString(node.content, options, 0)
    ELSE node.text

\* C6: rendering an inline node appends its rendering, preceded by exactly
\* one space when the output so far is non-empty, the node's content is not
\* a single punctuation character, the content does not begin with
\* whitespace and the output does not end with whitespace; and
\* <p>Hello <b>world</b></p> renders as "Hello **world**" and a blank line.
C6_InlineSpacing ==
  /\ [][(pc = "rendering" /\ next <= Len(ast)
           /\ ast[next].type \in InlineTypes)
          => LET content == inlineContent(ast[next])
                 space ==
                   /\ markdownString # <<>>
                   /\ ~(Len(content) = 1 /\ content[1] \in Punctuation)
                   /\ ~(content # <<>> /\ content[1] \in Whitespace)
                   /\ markdownString[Len(markdownString)] \notin Whitespace
             IN markdownString' =
                  markdownString \o (IF space THEN <<" ">> ELSE <<>>)
                    \o renderNode(<<>>, ast[next], options, 0)]_vars
  /\ []((pc = "returned"
           /\ doc = Page(<<E("p", <<TextNode(sHello),
                                    E("b", <<TextNode(sWorld)>>)>>)>>))
          => markdownString = sHello \o <<"*", "*">> \o sWorld
                                \o <<"*", "*", "\n", "\n">>)

\* C6 witness: the example was rendered, and a punctuation node was appended
\* to non-empty output without a space.
C6_Witness ==
  \/ /\ pc = "returned"
     /\ markdownString = sHello \o <<"*", "*">> \o sWorld
                           \o <<"*", "*", "\n", "\n">>
  \/ /\ pc = "rendering" /\ next = 3
     /\ ast[2].type = "italic" /\ inlineContent(ast[2]) = <<";">>
     /\ markdownString = <<"H", "e", "l", "l", "o", "*", ";", "*">>

itemLine(node, i) ==
  LET contents == trim(markdownContentASTToString(node.items[i].content,
                                                  options, 1))
  IN IF contents = <<>> THEN <<>>
     ELSE (IF node.ordered THEN NumToString(i) \o <<".">> ELSE <<"-">>)
            \o <<" ">> \o contents \o <<"\n">>

\* C7: rendering a list appends one line per item whose rendered, trimmed
\* content is non-empty, in item order and on a line of its own, nothing for
\* an item whose content is empty, and then a blank line.
C7_ListRendering ==
  [][(pc = "rendering" /\ next <= Len(ast) /\ ast[next].type = "list")
       => LET node == ast[next]
              opening ==
                IF node.items # <<>> /\ sliceLast(markdownString) # <<"\n">>
                  THEN <<"\n">>
                  ELSE <<>>
          IN markdownString' =
               markdownString \o opening
                 \o Concat([i \in 1..Len(node.items) |-> itemLine(node, i)])
                 \o <<"\n">>]_vars

\* C7 witness: a list of three items after some text was rendered, the
\* middle item empty, giving two item lines.
C7_Witness ==
  /\ pc = "returned"
  /\ Len(ast) = 2 /\ ast[2].type = "list" /\ ast[2].ordered
  /\ Len(ast[2].items) = 3
  /\ ast[2].items[2].content = <<>>
  /\ markdownString = <<"x", "\n", "1", ".", " ", "A", "\n",
                        "3", ".", " ", "A", "\n", "\n">>

\* C8: with column tracking on, the cell of a row that starts at column k
\* (the colspans of the cells before it in the row summed) carries the
\* column id col-k, and the cells of the header separator carry none. This
\* states the translator's half of the claim.
C8_ColIdsFollowColspans ==
  (/\ translated /\ options.enableTableColumnTracking
   /\ isElement(onlyChild) /\ onlyChild.tagName = "table"
   /\ Len(ast) = 1 /\ ast[1].type = "table")
    => LET tableRows == querySelectorAll(onlyChild, {"tr"})
           hasHeaders == querySelectorAll(tableRows[1], {"th"}) # <<>>
           rowOf(r) == IF hasHeaders /\ r > 1 THEN r + 1 ELSE r
       IN /\ \A r \in 1..Len(tableRows) :
               LET cells == querySelectorAll(tableRows[r], {"th", "td"})
               IN \A k \in 1..Len(cells) :
                    ast[1].rows[rowOf(r)].cells[k].colId =
                      <<"c", "o", "l", "-">>
                        \o NumToString(columnIndexAt(cells, k))
          /\ hasHeaders =>
               \A k \in 1..Len(ast[1].rows[2].cells) :
                 ast[1].rows[2].cells[k].colId = Absent

\* C9: without the overrideDOMParser option and without a DOMParser of the
\* host, a conversion stops with an error before any element is selected or
\* translated, and returns no output.
C9_NoParserNoConversion ==
  (~options.overrideDOMParser /\ ~hostDOMParser)
    => /\ pc \in {"start", "thrown"}
       /\ element = null
       /\ ast = <<>>
       /\ next = 1
       /\ markdownString = <<>>

\* C9 witness: a conversion stopped with the error.
C9_Witness ==
  /\ pc = "thrown"
  /\ ~options.overrideDOMParser /\ ~hostDOMParser
  /\ doc.childNodes # <<>>

\* C10: every link node of the AST has non-empty content, and an anchor
\* whose translated content is empty contributes no node at all.
C10_LinkContentNonEmpty ==
  translated =>
    /\ \A k \in 1..Len(astNodes(ast)) :
         astNodes(ast)[k].type = "link" => astNodes(ast)[k].content # <<>>
    /\ (/\ isElement(onlyChild) /\ onlyChild.tagName = "a"
        /\ htmlToMarkdownAST(onlyChild, options, 0) = <<>>)
         => ast = <<>>

\* the module-level objects found at two positions of an AST
sharedObjects(nodes) ==
  LET all == astNodes(nodes)
  IN {all[i].object :
        i \in {k \in 1..Len(all) :
                 /\ "object" \in DOMAIN all[k]
                 /\ \E j \in 1..Len(all) :
                      /\ j # k
                      /\ "object" \in DOMAIN all[j]
                      /\ all[j].object = all[k].object}}

\* C11: no node object of the AST is shared: every object occurs at exactly
\* one position of the tree, the nodes pushed for br, hr and after a
\* paragraph included (a node made by an object literal is a new object at
\* its position, so only the objects made at module load can occur twice).
C11_NoSharedNode ==
  translated => sharedObjects(ast) = {}

(***************************************************************************)
(* URL refification (core/urlUtils.ts) and convertElementToMarkdown        *)
(* (index.ts).  The URL map is the sequence of its entries in insertion    *)
(* order; the AST, which the source rewrites in place, is returned anew.   *)
(***************************************************************************)

mediaSuffixes ==
  {<<"j", "p", "e", "g">>, <<"j", "p", "g">>, <<"p", "n", "g">>,
   <<"g", "i", "f">>, <<"b", "m", "p">>, <<"t", "i", "f", "f">>,
   <<"t", "i", "f">>, <<"s", "v", "g">>, <<"w", "e", "b", "p">>,
   <<"i", "c", "o">>, <<"a", "v", "i">>, <<"m", "o", "v">>,
   <<"m", "p", "4">>, <<"m", "k", "v">>, <<"f", "l", "v">>,
   <<"w", "m", "v">>, <<"w", "e", "b", "m">>, <<"m", "p", "e", "g">>,
   <<"m", "p", "g">>, <<"m", "p", "3">>, <<"w", "a", "v">>,
   <<"a", "a", "c">>, <<"o", "g", "g">>, <<"f", "l", "a", "c">>,
   <<"m", "4", "a">>, <<"p", "d", "f">>, <<"d", "o", "c">>,
   <<"d", "o", "c", "x">>, <<"p", "p", "t">>, <<"p", "p", "t", "x">>,
   <<"x", "l", "s">>, <<"x", "l", "s", "x">>, <<"t", "x", "t">>,
   <<"c", "s", "s">>, <<"j", "s">>, <<"x", "m", "l">>,
   <<"j", "s", "o", "n">>, <<"h", "t", "m", "l">>, <<"h", "t", "m">>}

\* parts.join(c)
RECURSIVE join(_, _)
join(parts, c) ==
  IF parts = <<>> THEN <<>>
  ELSE IF Len(parts) = 1 THEN parts[1]
  ELSE parts[1] \o <<c>> \o join(Tail(parts), c)

\* prefixesToRefs[prefix], Absent when the map has no such key
tokenOf(prefixesToRefs, prefix) ==
  IF \E k \in 1..Len(prefixesToRefs) : prefixesToRefs[k].key = prefix
    THEN prefixesToRefs[CHOOSE k \in 1..Len(prefixesToRefs) :
                          prefixesToRefs[k].key = prefix].token
    ELSE Absent

\* a token numbered from one
refTokenFromOne(count) == <<"r", "e", "f">> \o NumToString(count + 1)

\* 'ref' + Object.values(prefixesToRefs).length
refToken(count) == <<"r", "e", "f">> \o NumToString(count)

\* addRefPrefix: the token returned and the map as it is afterwards
addRefPrefix(prefix, prefixesToRefs) ==
  LET token == tokenOf(prefixesToRefs, prefix)
      fresh == refToken(Len(prefixesToRefs))
  IN IF token = Absent
       THEN [ref |-> fresh,
             map |-> Append(prefixesToRefs,
                            [key |-> prefix, token |-> fresh])]
     ELSE IF token = <<>>
       THEN [ref |-> fresh,
             map |-> [k \in 1..Len(prefixesToRefs) |->
                        IF prefixesToRefs[k].key = prefix
                          THEN [key |-> prefix, token |-> fresh]
                          ELSE prefixesToRefs[k]]]
     ELSE [ref |-> token, map |-> prefixesToRefs]

\* every URL taken for one that starts with http
startsWithAnything(url) == TRUE

\* url.startsWith('http')
startsWithHttp(url) == startsWith(url, <<"h", "t", "t", "p">>)

\* processUrl: the URL returned and the map as it is afterwards
processUrl(url, prefixesToRefs) ==
  IF ~startsWithHttp(url)
    THEN [url |-> url, map |-> prefixesToRefs]
    ELSE
      LET dotted == split(url, ".")
          mediaSuffix == dotted[Len(dotted)]
          parts == split(url, "/")
      IN IF mediaSuffix # <<>> /\ mediaSuffix \in mediaSuffixes
           THEN LET prefix == join(SubSeq(parts, 1, Len(parts) - 1), "/")
                    added == addRefPrefix(prefix, prefixesToRefs)
                IN [url |-> added.ref \o <<":", "/", "/">>
                              \o parts[Len(parts)],
                    map |-> added.map]
         ELSE IF Len(parts) > 4
           THEN LET added == addRefPrefix(url, prefixesToRefs)
                IN [url |-> added.ref, map |-> added.map]
         ELSE [url |-> url, map |-> prefixesToRefs]

RECURSIVE refifyNodes(_, _)
RECURSIVE refifyNode(_, _)
RECURSIVE refifyItems(_, _)
RECURSIVE refifyCells(_, _)
RECURSIVE refifyRows(_, _)

\* case 'list': items.forEach(item => item.content.forEach(...))
refifyItems(items, urls) ==
  IF items = <<>> THEN [items |-> <<>>, map |-> urls]
  ELSE LET first == refifyNodes(items[1].content, urls)
           others == refifyItems(Tail(items), first.map)
       IN [items |-> <<[items[1] EXCEPT !.content = first.nodes]>>
                       \o others.items,
           map |-> others.map]

\* row.cells.forEach of case 'table'
refifyCells(cells, urls) ==
  IF cells = <<>> THEN [cells |-> <<>>, map |-> urls]
  ELSE IF isArrayContent(cells[1])
    THEN LET first == refifyNodes(cells[1].content, urls)
             others == refifyCells(Tail(cells), first.map)
         IN [cells |-> <<[cells[1] EXCEPT !.content = first.nodes]>>
                         \o others.cells,
             map |-> others.map]
  ELSE LET others == refifyCells(Tail(cells), urls)
       IN [cells |-> <<cells[1]>> \o others.cells, map |-> others.map]

\* case 'table': rows.forEach
refifyRows(rows, urls) ==
  IF rows = <<>> THEN [rows |-> <<>>, map |-> urls]
  ELSE LET first == refifyCells(rows[1].cells, urls)
           others == refifyRows(Tail(rows), first.map)
       IN [rows |-> <<[rows[1] EXCEPT !.cells = first.cells]>>
                      \o others.rows,
           map |-> others.map]

\* refifyUrls of one node: the switch of lines 77-104
refifyNode(node, urls) ==
  CASE node.type = "link" ->
         LET href == processUrl(node.href, urls)
             content == refifyNodes(node.content, href.map)
         IN [node |-> [node EXCEPT !.href = href.url,
                                   !.content = content.nodes],
             map |-> content.map]
    [] node.type \in {"image", "video"} ->
         LET src == processUrl(node.src, urls)
         IN [node |-> [node EXCEPT !.src = src.url], map |-> src.map]
    [] node.type = "list" ->
         LET items == refifyItems(node.items, urls)
         IN [node |-> [node EXCEPT !.items = items.items],
             map |-> items.map]
    [] node.type = "table" ->
         LET rows == refifyRows(node.rows, urls)
         IN [node |-> [node EXCEPT !.rows = rows.rows], map |-> rows.map]
    [] node.type \in {"blockquote", "semanticHtml"} ->
         LET content == refifyNodes(node.content, urls)
         IN [node |-> [node EXCEPT !.content = content.nodes],
             map |-> content.map]
    [] OTHER -> [node |-> node, map |-> urls]

\* refifyUrls of a node array
refifyNodes(nodes, urls) ==
  IF nodes = <<>> THEN [nodes |-> <<>>, map |-> urls]
  ELSE LET first == refifyNode(nodes[1], urls)
           others == refifyNodes(Tail(nodes), first.map)
       IN [nodes |-> <<first.node>> \o others.nodes, map |-> others.map]

\* refifyUrls(ast, urlMap)
refifyUrls(nodes, urls) == refifyNodes(nodes, urls)

\* the URLs refifyUrls hands to processUrl, in the order of the calls
RECURSIVE urlsVisited(_)
urlsVisited(nodes) ==
  Concat([k \in 1..Len(nodes) |->
    LET node == nodes[k]
    IN CASE node.type = "link" -> <<node.href>> \o urlsVisited(node.content)
         [] node.type \in {"image", "video"} -> <<node.src>>
         [] node.type = "list" ->
              Concat([i \in 1..Len(node.items) |->
                        urlsVisited(node.items[i].content)])
         [] node.type = "table" ->
              Concat([r \in 1..Len(node.rows) |->
                Concat([c \in 1..Len(node.rows[r].cells) |->
                  IF isArrayContent(node.rows[r].cells[c])
                    THEN urlsVisited(node.rows[r].cells[c].content)
                    ELSE <<>>])])
         [] node.type \in {"blockquote", "semanticHtml"} ->
              urlsVisited(node.content)
         [] OTHER -> <<>>])

\* convertElementToMarkdown(element, options), options.urlMap being urls
\* before the call: the AST rendered, the string returned and options.urlMap
\* afterwards
convertElementToMarkdown(root, opts, urls) ==
  LET translatedAst == htmlToMarkdownAST(root, opts, 0)
  IN IF opts.refifyUrls
       THEN LET refified ==
                  refifyUrls(translatedAst,
                             IF urls.defined THEN urls.entries ELSE <<>>)
            IN [ast |-> refified.nodes,
                output |-> markdownASTToString(refified.nodes, opts),
                map |-> [defined |-> TRUE, entries |-> refified.map]]
       ELSE [ast |-> translatedAst,
             output |-> markdownASTToString(translatedAst, opts),
             map |-> urls]

MaxCalls == 3

uLong == <<"h", "t", "t", "p", ":", "/", "/", "a", "/", "b", "/", "c">>
uOther == <<"h", "t", "t", "p", ":", "/", "/", "b", "/", "c", "/", "d">>
uPng == <<"h", "t", "t", "p", ":", "/", "/", "a", "/", "x", ".", "p", "n", "g">>
uJpg == <<"h", "t", "t", "p", ":", "/", "/", "a", "/", "y", ".", "j", "p", "g">>
uShort == <<"h", "t", "t", "p", ":", "/", "/", "a">>
uRelative == <<"/", "x", ".", "p", "n", "g">>

Link(href, childNodes) == Element("a", Attrs([href |-> href]), childNodes)

Image(src) == Element("img", Attrs([src |-> src]), <<>>)

RefElements ==
  {E("body", q) :
     q \in { <<Link(uLong, <<TextNode(<<"t">>)>>)>>,
             <<Link(uPng, <<TextNode(<<"t">>)>>)>>,
             <<Image(uJpg)>>,
             <<Link(uLong, <<TextNode(<<"t">>)>>), Image(uPng)>>,
             <<Image(uPng), Link(uLong, <<TextNode(<<"t">>)>>)>>,
             <<E("ul", <<E("li", <<Link(uOther, <<TextNode(<<"t">>)>>)>>)>>),
               Element("video", Attrs([src |-> uLong]), <<>>)>>,
             <<Link(uRelative, <<TextNode(<<"t">>)>>)>>,
             <<E("blockquote", <<Link(uLong, <<Image(uJpg)>>)>>)>>,
             <<Link(uShort, <<TextNode(<<"t">>)>>)>>,
             <<E("b", <<Link(uOther, <<TextNode(<<"t">>)>>)>>)>>,
             <<E("table", <<E("tr", <<E("td", <<Image(uPng)>>)>>)>>)>>,
             <<Link(uLong, <<TextNode(<<"t">>)>>),
               Link(uLong, <<TextNode(<<"u">>)>>)>> }}

InitCalls ==
  /\ doc = Page(<<>>)
  /\ options = DefaultOptions
  /\ hostDOMParser = TRUE
  /\ pc = "start"
  /\ element = null
  /\ ast = <<>>
  /\ next = 1
  /\ markdownString = <<>>
  /\ scored = E("body", <<>>)
  /\ score = calculateScore(scored)
  /\ urlMap = undefinedMap
  /\ callOptions \in {[DefaultOptions EXCEPT !.refifyUrls = b] :
                        b \in BOOLEAN}
  /\ callElement = E("body", <<>>)
  /\ callAst = <<>>
  /\ callOutput = <<>>
  /\ calls = 0
  /\ processed = <<>>

\* one call of convertElementToMarkdown with the options object
ConvertElement ==
  /\ calls < MaxCalls
  /\ \E root \in RefElements :
       LET call == convertElementToMarkdown(root, callOptions, urlMap)
       IN /\ callElement' = root
          /\ callAst' = call.ast
          /\ callOutput' = call.output
          /\ urlMap' = call.map
          /\ processed' =
               IF callOptions.refifyUrls
                 THEN processed
                        \o urlsVisited(htmlToMarkdownAST(root, callOptions,
                                                         0))
                 ELSE processed
  /\ calls' = calls + 1
  /\ UNCHANGED <<callVars, scoreVars, callOptions>>

NextCalls == ConvertElement

SpecCalls == InitCalls /\ [][NextCalls]_vars

\* the key under which a URL is refified, as a sequence of at most one key:
\* a URL starting with http qualifies with the part before its last slash
\* when what follows its last dot is a media suffix, else as a whole when it
\* has more than 4 parts between slashes
refKeys(url) ==
  LET slashes == {k \in 1..Len(url) : url[k] = "/"}
      dots == {k \in 1..Len(url) : url[k] = "."}
      lastOf(S) == CHOOSE k \in S : \A j \in S : j <= k
      suffix == IF dots = {} THEN url
                ELSE SubSeq(url, lastOf(dots) + 1, Len(url))
  IN IF ~(Len(url) >= 4 /\ SubSeq(url, 1, 4) = <<"h", "t", "t", "p">>)
       THEN <<>>
     ELSE IF suffix \in mediaSuffixes
       THEN <<IF slashes = {} THEN <<>>
              ELSE SubSeq(url, 1, lastOf(slashes) - 1)>>
     ELSE IF Cardinality(slashes) + 1 > 4 THEN <<url>>
     ELSE <<>>

\* a sequence without the later occurrences of its elements
RECURSIVE firstOccurrences(_)
firstOccurrences(s) ==
  IF s = <<>> THEN <<>>
  ELSE LET front == firstOccurrences(SubSeq(s, 1, Len(s) - 1))
           last == s[Len(s)]
       IN IF \E k \in 1..Len(front) : front[k] = last
            THEN front
            ELSE Append(front, last)

encounteredKeys ==
  firstOccurrences(Concat([k \in 1..Len(processed) |->
                             refKeys(processed[k])]))

\* C12: starting from an empty URL map, the map's tokens are exactly ref0,
\* ref1, ..., ref(n-1) for its n keys; the k-th distinct key first
\* encountered holds ref(k-1); every URL the last call rewrote carries the
\* token of its key, so a key encountered again gets the token it has; and
\* no entry is ever removed or changed.
C12_TokensInEncounterOrder ==
  /\ [](urlMap.defined =>
          /\ Len(urlMap.entries) = Len(encounteredKeys)
          /\ \A k \in 1..Len(urlMap.entries) :
               /\ urlMap.entries[k].key = encounteredKeys[k]
               /\ urlMap.entries[k].token =
                    <<"r", "e", "f">> \o NumToString(k - 1)
          /\ LET rewritten == urlsVisited(callAst)
                 before == Len(processed) - Len(rewritten)
             IN \A k \in 1..Len(rewritten) :
                  LET keys == refKeys(processed[before + k])
                  IN IF keys = <<>>
                       THEN rewritten[k] = processed[before + k]
                       ELSE startsWith(rewritten[k],
                                       tokenOf(urlMap.entries, keys[1])))
  /\ [][urlMap.defined =>
          /\ urlMap'.defined
          /\ Len(urlMap'.entries) >= Len(urlMap.entries)
          /\ SubSeq(urlMap'.entries, 1, Len(urlMap.entries))
               = urlMap.entries]_vars

\* C12 witness: three calls have filled the map with three keys, one of them
\* a media prefix, and keys were encountered again on the way.
C12_Witness ==
  /\ calls = 3
  /\ urlMap.defined /\ Len(urlMap.entries) = 3
  /\ urlMap.entries[2].key = <<"h", "t", "t", "p", ":", "/", "/", "a">>
  /\ urlMap.entries[3].token = <<"r", "e", "f", "2">>
  /\ Len(processed) > 4
  /\ \E k \in 1..Len(processed) : refKeys(processed[k]) = <<>>

\* C13: the URL map is scoped to one call: what a call of
\* convertElementToMarkdown with refifyUrls returns, the AST it renders and
\* the entries it adds are those of the same call made with no map left by
\* an earlier call, also when the calls share the options object.
C13_MapScopedToCall ==
  (calls >= 1 /\ callOptions.refifyUrls) =>
    LET alone == convertElementToMarkdown(callElement, callOptions,
                                          undefinedMap)
    IN /\ callOutput = alone.output
       /\ callAst = alone.ast
       /\ \A k \in 1..Len(alone.map.entries) :
            \E j \in 1..Len(urlMap.entries) :
              urlMap.entries[j] = alone.map.entries[k]

(***************************************************************************)
(* One call of convertElementToMarkdown(root, options) with an element of  *)
(* the caller (index.ts): no parser, no main-content detection; the root   *)
(* is the whole of doc, and element is the empty path.                     *)
(***************************************************************************)

customNode == [type |-> "custom", text |-> <<"h">>]

\* the values an overrideElementProcessing hook returns
HookResults ==
  {Undefined, False, Nodes(<<>>), Nodes(<<customNode>>),
   Nodes(<<Text(<<"h">>), [type |-> "bold", content |-> <<Text(<<"k">>)>>]>>)}

DisplayNone == [VisibleStyle EXCEPT !.display = "none"]

\* child elements that default handling excludes, turns into metadata,
\* drops as invisible, hands to a translator, or recurses into
HookChildren ==
  {E("nav", <<TextNode(<<"n">>)>>),
   E("head", <<E("title", <<TextNode(<<"T">>)>>)>>),
   Styled(E("div", <<TextNode(<<"d">>)>>), DisplayNone),
   E("p", <<TextNode(<<"a">>)>>),
   E("span", <<TextNode(<<"s">>)>>),
   E("section", <<E("span", <<TextNode(<<"s">>)>>)>>)}

HookedTags == {"nav", "head", "div", "p", "span"}

HookOptions ==
  {[DefaultOptions EXCEPT
      !.excludeTagNames = {"nav"},
      !.includeMetaData = "basic",
      !.excludeInvisibleElements = TRUE,
      !.overrideElementProcessing = h,
      !.processUnhandledElement = u] :
     h \in {NoHook} \cup {Hook({t}, r) : t \in HookedTags, r \in HookResults},
     u \in {NoHook, Hook({"span"}, Nodes(<<customNode>>)),
            Hook({"span"}, Undefined)}}

HookInputs ==
  {<<E("div", <<c>>), o>> : c \in HookChildren, o \in HookOptions}

\* the strings an overrideNodeRenderer hook returns
RendererResults == {UndefinedString, String(<<>>), String(<<"R">>)}

RendererOptions ==
  {[DefaultOptions EXCEPT !.overrideNodeRenderer = r] :
     r \in {Renderer({t}, s) :
              t \in {"bold", "text", "list"}, s \in RendererResults}}

RendererRoots ==
  {E("div", <<E("b", <<TextNode(<<"w">>)>>), TextNode(<<"x">>)>>),
   E("div", <<E("ul", <<E("li", <<TextNode(<<"A">>)>>)>>)>>)}

RendererInputs == RendererRoots \X RendererOptions

\* roots of every kind of tag: unhandled, heading, excluded, ignored,
\* translated, and an invisible one
RootShells ==
  {E("div", <<>>), E("h1", <<>>), E("nav", <<>>), E("script", <<>>),
   E("pre", <<>>), E("blockquote", <<>>), E("ul", <<>>),
   Styled(E("div", <<>>), DisplayNone),
   Element("section", Attrs([role |-> <<"m", "a", "i", "n">>]), <<>>)}

RootChildNodes ==
  {<<TextNode(<<"a">>), E("code", <<TextNode(<<"c">>)>>)>>,
   <<E("p", <<TextNode(<<"a">>)>>), E("li", <<TextNode(<<"b">>)>>)>>,
   <<E("span", <<E("code", <<TextNode(<<"c">>)>>)>>)>>}

RootInputs ==
  {<<[shell EXCEPT !.childNodes = q],
     [DefaultOptions EXCEPT !.excludeTagNames = {"nav"},
                            !.excludeInvisibleElements = TRUE]>> :
     shell \in RootShells, q \in RootChildNodes}

\* a table of one row and one cell
Table1(cellChildNodes) ==
  E("table", <<E("tr", <<E("td", cellChildNodes)>>)>>)

\* trees whose text nodes all differ: inline nesting, lists, a shadow tree
\* with a slot, tables and a table within a table cell
OrderRoots ==
  {E("div", <<TextNode(<<"a">>), E("b", <<TextNode(<<"b">>)>>),
              E("span", <<E("i", <<TextNode(<<"c">>)>>)>>),
              TextNode(<<"d">>)>>),
   E("div", <<E("ul", <<E("li", <<TextNode(<<"a">>),
                                  E("ol", <<E("li", <<TextNode(<<"b">>)>>)>>)>>),
                        E("li", <<TextNode(<<"c">>)>>)>>),
              TextNode(<<"d">>)>>),
   ShadowHost(E("div", <<TextNode(<<"a">>), E("b", <<TextNode(<<"b">>)>>)>>),
              <<TextNode(<<"c">>),
                Slot(<<TextNode(<<"a">>), E("b", <<TextNode(<<"b">>)>>)>>),
                E("p", <<TextNode(<<"d">>)>>)>>),
   E("div", <<Table1(<<TextNode(<<"a">>)>>), TextNode(<<"b">>)>>),
   E("div", <<E("table", <<E("tr", <<E("td", <<TextNode(<<"a">>)>>),
                                     E("td", <<TextNode(<<"b">>)>>)>>),
                           E("tr", <<E("th", <<TextNode(<<"c">>)>>)>>)>>)>>),
   E("div", <<Table1(<<TextNode(<<"a">>), Table1(<<TextNode(<<"b">>)>>),
                       TextNode(<<"c">>)>>)>>)}

OrderInputs == OrderRoots \X {DefaultOptions}

\* trees with an element to exclude as a plain child, inside a paragraph,
\* as a list item, and as a row or a cell of a table
ExcludeRoots ==
  {E("div", <<E("nav", <<TextNode(<<"a">>), E("b", <<TextNode(<<"b">>)>>)>>),
              TextNode(<<"c">>)>>),
   E("div", <<E("p", <<E("span", <<TextNode(<<"a">>)>>),
                       TextNode(<<"b">>)>>)>>),
   E("div", <<E("ul", <<E("li", <<TextNode(<<"a">>)>>),
                        E("li", <<E("span", <<TextNode(<<"b">>)>>)>>)>>)>>),
   E("div", <<E("table", <<E("tr", <<E("td", <<TextNode(<<"a">>)>>),
                                     E("th", <<TextNode(<<"b">>)>>)>>)>>)>>)}

ExcludeInputs ==
  {<<r, [DefaultOptions EXCEPT !.excludeTagNames = {t}]>> :
     r \in ExcludeRoots, t \in {"nav", "span", "li", "tr", "td", "th"}}

sDomain == <<"h", "t", "t", "p", ":", "/", "/", "a">>

\* a data:image source, a source on the website domain, one elsewhere, none
MediaSources ==
  {Attrs([src |-> DataImage \o <<"/", "p", "n", "g">>]),
   Attrs([src |-> sDomain \o <<"/", "v">>, poster |-> <<"*">>]),
   Attrs([src |-> <<"/", "w">>, controls |-> <<>>]),
   NoAttrs}

MediaInputs ==
  {<<E("div", <<Element(t, a, <<>>)>>),
     [DefaultOptions EXCEPT !.websiteDomain = d]>> :
     t \in {"img", "video"}, a \in MediaSources, d \in {Absent, sDomain}}

FormatTags == {"strong", "b", "em", "i", "s", "strike"}

\* formatting elements without text, with blank text, with text, and with a
\* formatting element inside
FormatInputs ==
  {<<E("div", <<E(t, q)>>), DefaultOptions>> :
     t \in FormatTags,
     q \in {<<>>, <<TextNode(<<" ">>)>>, <<TextNode(<<"x">>)>>,
            <<E("i", <<TextNode(<<"y">>)>>), TextNode(<<"z">>)>>}}

Title(text) == E("title", <<TextNode(text)>>)

\* a meta node as a hook makes it, with JSON-LD objects
jsonLdMeta(entries) ==
  [type |-> "meta",
   meta |-> [NoContent EXCEPT
               !.jsonLd = [defined |-> TRUE, entries |-> entries]]]

\* trees with head elements at the top, inside a region and inside a bold
\* element, with and without metadata
MetaRoots ==
  {E("div", <<E("head", <<Title(<<"A">>)>>), E("p", <<TextNode(<<"x">>)>>)>>),
   E("div", <<E("head", <<>>), E("head", <<Title(<<"B">>)>>)>>),
   E("div", <<E("section", <<E("head", <<Title(<<"A">>)>>)>>),
              E("head", <<Title(<<"B">>)>>)>>),
   E("div", <<E("b", <<E("head", <<Title(<<"A">>)>>), TextNode(<<"x">>)>>),
              E("head", <<Title(<<"B">>)>>)>>),
   E("div", <<TextNode(<<"x">>)>>)}

MetaHooks ==
  {NoHook,
   Hook({"head"}, Nodes(<<jsonLdMeta(<<>>)>>)),
   Hook({"head"},
        Nodes(<<jsonLdMeta(<<[type |-> Absent,
                              members |-> <<[key |-> <<"k">>,
                                             value |-> <<"v", "\"">>]>>],
                             [type |-> <<"T">>, members |-> <<>>]>>)>>))}

MetaInputs ==
  {<<r, [DefaultOptions EXCEPT !.includeMetaData = "basic",
                               !.emitFrontMatter = f,
                               !.overrideElementProcessing = h]>> :
     r \in MetaRoots, f \in BOOLEAN, h \in MetaHooks}

\* the inputs of a call: the root element and the caller's options
\* regions inside regions and inside a quote, a list item, a table cell, a
\* heading, a bold element and a link, next to each other, and without
\* content
RegionRoots ==
  {E("main", <<TextNode(<<"x">>)>>),
   E("div", <<E("main", <<TextNode(<<"x">>)>>)>>),
   E("div", <<E("main", <<E("nav", <<TextNode(<<"a">>)>>),
                          TextNode(<<"b">>)>>)>>),
   E("div", <<E("main", <<E("main", <<TextNode(<<"a">>)>>)>>)>>),
   E("div", <<E("nav", <<TextNode(<<"a">>)>>), E("footer", <<>>)>>),
   E("div", <<E("article", <<E("details",
                <<E("summary", <<TextNode(<<"s">>)>>)>>)>>)>>),
   E("div", <<E("section", <<E("aside", <<TextNode(<<"a">>)>>)>>)>>),
   E("div", <<E("blockquote", <<E("aside", <<TextNode(<<"q">>)>>)>>)>>),
   E("div", <<E("ul", <<E("li", <<E("header", <<TextNode(<<"h">>)>>)>>),
                        E("li", <<E("footer", <<>>)>>)>>)>>),
   E("div", <<E("table", <<E("tr", <<E("td",
                <<E("figure", <<E("figcaption",
                                  <<TextNode(<<"c">>)>>)>>)>>)>>)>>)>>),
   E("div", <<E("h1", <<E("mark", <<TextNode(<<"m">>)>>)>>)>>),
   E("div", <<E("b", <<E("time", <<TextNode(<<"t">>)>>)>>)>>),
   E("div", <<Element("a", Attrs([href |-> <<"/", "u">>]),
                      <<E("mark", <<TextNode(<<"m">>)>>)>>)>>)}

RegionOptions ==
  {DefaultOptions}
    \cup {[DefaultOptions EXCEPT !.overrideNodeRenderer = Renderer({t}, s)] :
            t \in {"semanticHtml", "text"},
            s \in {String(<<>>), String(<<"R">>)}}

RegionInputs == RegionRoots \X RegionOptions

ElementInputs ==
  HookInputs \cup RendererInputs \cup RootInputs \cup OrderInputs
    \cup ExcludeInputs \cup MediaInputs \cup FormatInputs \cup MetaInputs
    \cup RegionInputs

InitElement ==
  /\ \E input \in ElementInputs : doc = input[1] /\ options = input[2]
  /\ hostDOMParser = TRUE
  /\ pc = "selected"
  /\ element = <<>>
  /\ ast = <<>>
  /\ next = 1
  /\ markdownString = <<>>
  /\ scored = E("body", <<>>)
  /\ score = calculateScore(scored)
  /\ NoCalls

NextElement == Translate \/ RenderNext \/ Return

SpecElement == InitElement /\ [][NextElement]_vars

\* the override hook returns undefined for every element below the node
RECURSIVE hookSilentBelow(_, _)
hookSilentBelow(hook, node) ==
  \A k \in 1..Len(node.childNodes) :
    /\ isElement(node.childNodes[k]) =>
         callHook(hook, node.childNodes[k]).kind = "undefined"
    /\ hookSilentBelow(hook, node.childNodes[k])

\* the result of the override hook for the only child of the root
onlyChildOverride == callHook(options.overrideElementProcessing, onlyChild)

\* C14: for a child element that is no slot, the overrideElementProcessing
\* hook decides: a returned node array is appended as it is and default
\* handling (exclusion, metadata, visibility, tag dispatch, recursion) does
\* not run; a returned false or empty array leaves the element without any
\* contribution; only a returned undefined lets default handling go on, and
\* the result then is the one obtained without the hook.
C14_OverrideDecides ==
  (translated /\ isElement(onlyChild) /\ ~isSlotElement(onlyChild)) =>
    /\ onlyChildOverride.kind = "nodes" => ast = onlyChildOverride.nodes
    /\ onlyChildOverride.kind = "false" => ast = <<>>
    /\ (onlyChildOverride.kind = "undefined"
          /\ hookSilentBelow(options.overrideElementProcessing, onlyChild)) =>
         ast = htmlToMarkdownAST(
                 nodeAt(doc, element),
                 [options EXCEPT !.overrideElementProcessing = NoHook], 0)

\* a hook returned false for a paragraph, and the paragraph left nothing
C14_Witness ==
  /\ translated
  /\ onlyChild.tagName = "p"
  /\ onlyChildOverride.kind = "false"
  /\ htmlToMarkdownAST(
       nodeAt(doc, element),
       [options EXCEPT !.overrideElementProcessing = NoHook], 0) # <<>>
  /\ ast = <<>>

\* the value of the overrideNodeRenderer hook for the node rendered next
nextOverride ==
  IF pc = "rendering" /\ next <= Len(ast)
    THEN callRenderer(options.overrideNodeRenderer, ast[next])
    ELSE UndefinedString

\* C15: when overrideNodeRenderer returns a string for a node the renderer
\* visits, whatever the string, the empty one included, the node's rendering
\* is that string and nothing of the default rendering of the node is
\* emitted.
C15_OverrideStringIsRendering ==
  [][nextOverride.kind = "string" =>
       markdownString' = markdownString \o nextOverride.text]_vars

\* the root of the call
root == elementNode(doc, element, options)

\* a plain div with the child nodes of the root
plainRoot == E("div", root.childNodes)

\* what convertElementToMarkdown returns for plainRoot
plainOutput ==
  markdownASTToString(htmlToMarkdownAST(plainRoot, options, 0), options)

\* the root is a pre element and one of its children is a code element
preWithCode ==
  /\ root.tagName = "pre"
  /\ \E k \in 1..Len(root.childNodes) : root.childNodes[k].tagName = "code"

RECURSIVE composedTexts(_)
composedTexts(node) ==
  IF isTextNode(node) THEN <<node.data>>
  ELSE IF ~isElement(node) THEN <<>>
  ELSE IF isSlotElement(node)
    THEN Concat([k \in 1..Len(node.assigned) |->
                   composedTexts(node.assigned[k])])
  ELSE Concat([k \in 1..Len(childNodesOf(node)) |->
                 composedTexts(childNodesOf(node)[k])])

\* the texts below the root, in DOM order
rootTexts ==
  Concat([k \in 1..Len(childNodesOf(root)) |->
            composedTexts(childNodesOf(root)[k])])

\* the position of a text node of the DOM, named by its data
domPosition(data) == CHOOSE k \in 1..Len(rootTexts) : rootTexts[k] = data

\* the text nodes of the AST that come from a text node of the DOM, in
\* pre-order
astTexts ==
  SelectSeq(astNodes(ast),
            LAMBDA n : n.type = "text"
                         /\ \E k \in 1..Len(rootTexts) : rootTexts[k] = n.text)

\* the text nodes of the DOM all differ, so that an AST text node names the
\* DOM text node it comes from
distinctTexts ==
  \A i, j \in 1..Len(rootTexts) : rootTexts[i] = rootTexts[j] => i = j

\* C17: the AST keeps document order: of two AST text nodes that come from
\* two text nodes of the DOM, the one that comes first in the pre-order
\* traversal of the AST comes from the text node that comes first in the
\* depth-first traversal of the DOM.
C17_DocumentOrder ==
  (translated /\ distinctTexts) =>
    \A i, j \in 1..Len(astTexts) :
      (i < j /\ astTexts[i].text # astTexts[j].text) =>
        domPosition(astTexts[i].text) < domPosition(astTexts[j].text)

\* the candidates of detectMainContent for the body of the document
bodyCandidates ==
  LET candidates == collectCandidates(doc, bodyOf(doc))
  IN {candidates[k] : k \in 1..Len(candidates)}

\* the candidates that are not a descendant of another candidate
independentCandidates ==
  {q \in bodyCandidates :
     ~\E other \in bodyCandidates : other # q /\ contains(other, q)}

\* C18: without a main element and with a candidate in the body subtree,
\* findMainContent returns a candidate that is not nested inside another
\* candidate, and none of the candidates that are not nested scores higher.
C18_BestIndependentCandidate ==
  (/\ selected /\ options.extractMainContent
   /\ mainPaths(doc) = {} /\ bodyOf(doc) # null /\ bodyCandidates # {})
    => /\ element \in independentCandidates
       /\ \A q \in independentCandidates :
            calculateScore(nodeAt(doc, q))
              <= calculateScore(nodeAt(doc, element))

\* the element's id or class list contains a word of the vocabulary
matchesVocabulary(e) ==
  \E k \in 1..Len(highImpactAttributes) :
    \/ highImpactAttributes[k] \in classList(e)
    \/ includes(reflected(e, "id"), highImpactAttributes[k])

\* the terms of the score other than the vocabulary term
otherTerms(e) ==
  (IF e.tagName \in highImpactTags THEN 5 ELSE 0)
    + paragraphScore(e) + textScore(e) + densityTerm(e)
    + (IF hasAttribute(e, "data-main") \/ hasAttribute(e, "data-content")
         THEN 10 ELSE 0)
    + (IF hasAttribute(e, "role")
            /\ includes(e.attrs["role"], <<"m", "a", "i", "n">>)
         THEN 10 ELSE 0)

\* C19: the vocabulary term of the score is all or nothing: 10 when the id or
\* the class list of the element contains at least one word of the
\* vocabulary, however many words match, and 0 otherwise.
C19_VocabularyAllOrNothing ==
  score - otherTerms(scored) = IF matchesVocabulary(scored) THEN 10 ELSE 0

\* the elements below the root whose tag name is excluded and for which the
\* override hook returns undefined
excludedElements ==
  LET below == descendants(root)
  IN {below[k] : k \in {i \in 1..Len(below) :
        /\ below[i].tagName \in options.excludeTagNames
        /\ callHook(options.overrideElementProcessing,
                    below[i]).kind = "undefined"}}

\* the texts of the AST text nodes
astTextSet == {astTexts[k].text : k \in 1..Len(astTexts)}

\* C20: an element whose tag name is in excludeTagNames, and for which no
\* override hook returned a result, contributes nothing to the AST, and
\* neither does any of its descendants, wherever the element sits: no text
\* node of the AST comes from a text node inside an excluded element.
C20_ExcludedContributesNothing ==
  (translated /\ distinctTexts) =>
    \A e \in excludedElements :
      \A k \in 1..Len(composedTexts(e)) :
        composedTexts(e)[k] \notin astTextSet

\* the src an image node gets for a source: - for a data:image source, the
\* source without the website domain prefix otherwise
translatedSrc(src, opts) ==
  IF startsWith(src, DataImage) THEN <<"-">> ELSE stripDomain(src, opts)

\* C21: the translator treats the src of a video as it treats the src of an
\* image: a src starting with data:image becomes -, a src starting with the
\* website domain loses that prefix, any other src is kept.
C21_VideoSrcLikeImage ==
  (translated /\ onlyChild.tagName = "video") =>
    /\ Len(ast) = 1
    /\ ast[1].type = "video"
    /\ ast[1].src = translatedSrc(reflected(onlyChild, "src"), options)

\* the node kind the claim gives to a formatting element
formattingKind(tagName) ==
  CASE tagName \in {"strong", "b"} -> "bold"
    [] tagName \in {"em", "i"} -> "italic"
    [] tagName \in {"s", "strike"} -> "strikethrough"

\* C22: strong and b map to bold, em and i to italic, s and strike to
\* strikethrough; the node is emitted exactly when the trimmed text content
\* of the element is not empty, and its content is the translation of the
\* element's children.
C22_FormattingKinds ==
  (translated /\ onlyChild.tagName \in {"strong", "b", "em", "i", "s",
                                        "strike"}) =>
    ast = IF trim(textContent(onlyChild)) # <<>>
            THEN <<[type |-> formattingKind(onlyChild.tagName),
                    content |-> htmlToMarkdownAST(onlyChild, options, 1)]>>
            ELSE <<>>

\* the tr elements of the only child, a table
onlyTableRows == querySelectorAll(onlyChild, {"tr"})

\* the th and td cells of the first row of the only child
firstRowCells ==
  IF onlyTableRows = <<>> THEN <<>>
  ELSE querySelectorAll(onlyTableRows[1], {"th", "td"})

\* C23: with column tracking the column ids of a table node come from the
\* first row only: col-0 .. col-(n-1) for the n cells of the first row,
\* whatever the other rows hold.
C23_ColIdsFromFirstRow ==
  (/\ translated /\ onlyChild.tagName = "table"
   /\ options.enableTableColumnTracking /\ onlyTableRows # <<>>) =>
    ast[1].colIds = [k \in 1..Len(firstRowCells) |->
                       <<"c", "o", "l", "-">> \o NumToString(k - 1)]

\* a synthetic separator row: cells whose content is the string ---
isSeparatorRow(row) ==
  /\ row.cells # <<>>
  /\ \A c \in 1..Len(row.cells) :
       ~isArrayContent(row.cells[c]) /\ row.cells[c].text = <<"-", "-", "-">>

\* the first row of the only child holds a th cell
firstRowHasHeader ==
  onlyTableRows # <<>> /\ querySelectorAll(onlyTableRows[1], {"th"}) # <<>>

\* the row of the table node made from a source row
rowOf(tr) ==
  tableRowNode(tr, tableColIds(onlyChild, options), options, 0)

\* C24: for a table with at least one row, when the first row holds a th
\* cell the second row of the table node is a separator row with one ---
\* cell per cell of the first row, right after the first row and before
\* every other row; when the first row holds no th cell the table node has
\* no separator row and one row per source row.
C24_HeaderSeparator ==
  (translated /\ onlyChild.tagName = "table" /\ onlyTableRows # <<>>) =>
    LET rows == ast[1].rows
        n == Len(onlyTableRows)
    IN IF firstRowHasHeader
         THEN /\ Len(rows) = n + 1
              /\ rows[1] = rowOf(onlyTableRows[1])
              /\ isSeparatorRow(rows[2])
              /\ Len(rows[2].cells) = Len(firstRowCells)
              /\ \A r \in 2..n : rows[r + 1] = rowOf(onlyTableRows[r])
              /\ \A r \in 1..(n + 1) : r # 2 => ~isSeparatorRow(rows[r])
         ELSE /\ Len(rows) = n
              /\ \A r \in 1..n : rows[r] = rowOf(onlyTableRows[r])
              /\ \A r \in 1..n : ~isSeparatorRow(rows[r])

\* a table of two rows with a header cell in the first: the separator row
\* stands between the two rows
C24_Witness ==
  /\ translated /\ onlyChild.tagName = "table"
  /\ Len(onlyTableRows) = 2
  /\ firstRowHasHeader
  /\ Len(firstRowCells) = 2
  /\ Len(ast[1].rows) = 3
  /\ isSeparatorRow(ast[1].rows[2])
  /\ ast[1].rows[3] = rowOf(onlyTableRows[2])
  /\ ast[1].rows[3].cells # <<>>

\* the meta nodes of the AST in pre-order
metaNodes == SelectSeq(astNodes(ast), LAMBDA n : n.type = "meta")

\* the content of a meta node has one of standard, openGraph, twitter, jsonLd
hasMetaData(content) ==
  \/ content.standard # <<>> \/ content.openGraph # <<>>
  \/ content.twitter # <<>> \/ content.jsonLd.defined

\* what the output holds before the rendering of the body
frontMatter ==
  LET body == markdownContentASTToString(ast, options, 0)
  IN SubSeq(markdownString, 1, Len(markdownString) - Len(body))

\* the renderer is about to render a top-level meta node for which no
\* overrideNodeRenderer hook answers
rendersMetaNode ==
  /\ pc = "rendering" /\ next <= Len(ast)
  /\ ast[next].type = "meta"
  /\ nextOverride.kind = "undefined"

\* C25: front matter is emitted only when emitFrontMatter is set, and only
\* from the first meta node of the tree in pre-order; without the option,
\* without a meta node, or with a first meta node that has none of standard,
\* openGraph, twitter and jsonLd, the output has no front-matter block; a
\* meta node adds nothing to the body.
C25_FrontMatterFromFirstMeta ==
  /\ [](pc = "returned" =>
          /\ (\/ ~options.emitFrontMatter
              \/ metaNodes = <<>>
              \/ ~hasMetaData(metaNodes[1].meta)) => frontMatter = <<>>
          /\ frontMatter # <<>> =>
               frontMatter = FrontMatterOpen \o metaLines(metaNodes[1].meta)
                               \o FrontMatterClose)
  /\ [][rendersMetaNode => markdownString' = markdownString]_vars

\* a URL qualifies for refification: it starts with http and has a listed
\* media suffix or more than 4 parts between slashes
qualifies(url) ==
  /\ startsWith(url, <<"h", "t", "t", "p">>)
  /\ \/ LET dotted == split(url, ".")
        IN dotted[Len(dotted)] # <<>> /\ dotted[Len(dotted)] \in mediaSuffixes
     \/ Len(split(url, "/")) > 4

\* C26: after refifyUrls no link, image or video node of the AST, at any
\* depth and under any kind of parent, keeps a URL that qualifies for
\* refification.
C26_NoQualifyingUrlLeft ==
  (calls > 0 /\ callOptions.refifyUrls) =>
    \A k \in 1..Len(astNodes(callAst)) :
      LET node == astNodes(callAst)[k]
      IN /\ node.type = "link" => ~qualifies(node.href)
         /\ node.type \in {"image", "video"} => ~qualifies(node.src)

\* the region types that case 'semanticHtml' renders between markers
MarkerTypes == SemanticTags \ {"article", "section"}

openMarker(htmlType) == <<"<", "-">> \o htmlTypeName(htmlType) \o <<"-", ">">>

closeMarker(htmlType) ==
  <<"<", "/", "-">> \o htmlTypeName(htmlType) \o <<"-", ">">>

occursAt(s, i, w) ==
  i + Len(w) - 1 <= Len(s) /\ SubSeq(s, i, i + Len(w) - 1) = w

\* the marker that starts at position i of a string, if there is one
markerAt(s, i) ==
  IF \E t \in MarkerTypes : occursAt(s, i, openMarker(t))
    THEN <<[open |-> TRUE,
            htmlType |-> CHOOSE t \in MarkerTypes :
                           occursAt(s, i, openMarker(t))]>>
  ELSE IF \E t \in MarkerTypes : occursAt(s, i, closeMarker(t))
    THEN <<[open |-> FALSE,
            htmlType |-> CHOOSE t \in MarkerTypes :
                           occursAt(s, i, closeMarker(t))]>>
  ELSE <<>>

\* the markers of a string, in the order of their positions
markersOf(s) == Concat([i \in 1..Len(s) |-> markerAt(s, i)])

\* the markers a forest of nodes asks for: those of every region node that
\* the renderer reaches, around those of its content, in document order
RECURSIVE nodeMarkers(_, _)
nodeMarkers(nodes, opts) ==
  Concat([k \in 1..Len(nodes) |->
    LET node == nodes[k]
    IN IF isTruthyString(callRenderer(opts.overrideNodeRenderer, node))
         THEN <<>>
       ELSE IF node.type = "semanticHtml"
         THEN IF node.htmlType \in MarkerTypes
                THEN <<[open |-> TRUE, htmlType |-> node.htmlType]>>
                       \o nodeMarkers(node.content, opts)
                       \o <<[open |-> FALSE, htmlType |-> node.htmlType]>>
                ELSE nodeMarkers(node.content, opts)
       ELSE IF node.type = "list"
         THEN Concat([i \in 1..Len(node.items) |->
                        nodeMarkers(node.items[i].content, opts)])
       ELSE IF node.type = "table"
         THEN Concat([r \in 1..Len(node.rows) |->
                Concat([c \in 1..Len(node.rows[r].cells) |->
                  IF isArrayContent(node.rows[r].cells[c])
                    THEN nodeMarkers(node.rows[r].cells[c].content, opts)
                    ELSE <<>>])])
       ELSE IF node.type \in {"link", "bold", "italic", "strikethrough",
                              "heading", "blockquote"}
               /\ isArrayContent(node)
         THEN nodeMarkers(node.content, opts)
       ELSE <<>>])

\* every closing marker closes the region opened last, and none stays open
RECURSIVE closesInOrder(_, _)
closesInOrder(markers, opened) ==
  IF markers = <<>> THEN opened = <<>>
  ELSE IF Head(markers).open
    THEN closesInOrder(Tail(markers), <<Head(markers).htmlType>> \o opened)
  ELSE /\ opened # <<>>
       /\ Head(opened) = Head(markers).htmlType
       /\ closesInOrder(Tail(markers), Tail(opened))

endsWith(s, p) ==
  Len(s) >= Len(p) /\ SubSeq(s, Len(s) - Len(p) + 1, Len(s)) = p

\* the AST is one region node that is rendered between markers
isOneRegion(nodes, opts) ==
  /\ Len(nodes) = 1
  /\ nodes[1].type = "semanticHtml"
  /\ nodes[1].htmlType \in MarkerTypes
  /\ ~isTruthyString(callRenderer(opts.overrideNodeRenderer, nodes[1]))

\* C27: the region markers of the rendered output are those of the region
\* nodes of the AST, an opening and a closing marker per node around the
\* markers of its content, in document order; every closing marker closes
\* the region opened last; and the output of one region node starts with its
\* opening marker and ends with its closing marker.
C27_MarkersBalanced ==
  pc = "returned" =>
    /\ markersOf(markdownString) = nodeMarkers(ast, options)
    /\ closesInOrder(markersOf(markdownString), <<>>)
    /\ isOneRegion(ast, options) =>
         /\ startsWith(trim(markdownString), openMarker(ast[1].htmlType))
         /\ endsWith(trim(markdownString), closeMarker(ast[1].htmlType))

\* a returned output with a region inside a region
C27_Witness ==
  /\ pc = "returned"
  /\ Len(markersOf(markdownString)) >= 4
  /\ markersOf(markdownString)[1].open
  /\ markersOf(markdownString)[2].open
  /\ markersOf(markdownString)[1].htmlType
       # markersOf(markdownString)[2].htmlType

(***************************************************************************)
(* refifyUrls(ast, urlMap) applied again and again to one AST with the map *)
(* it returned (urlUtils.ts), the first map being one of the caller.       *)
(***************************************************************************)

MaxApplications == 2

sRef1 == <<"r", "e", "f", "1">>

\* the ASTs of the elements above, and ASTs that hold tokens already
RefAsts ==
  {htmlToMarkdownAST(e, DefaultOptions, 0) : e \in RefElements}
    \cup {<<[type |-> "link", href |-> sRef1,
             content |-> <<Text(<<"t">>)>>]>>,
          <<[type |-> "image", src |-> sRef1 \o <<":", "/", "/", "x">>,
             alt |-> <<>>]>>}

\* maps of the caller: empty, left by earlier calls, with tokens of the
\* caller's own, with a token that is a URL, and with an empty token
CallerMaps ==
  {<<>>,
   <<[key |-> uLong, token |-> refToken(0)]>>,
   <<[key |-> uShort, token |-> refToken(0)],
     [key |-> uOther, token |-> refToken(1)]>>,
   <<[key |-> uShort, token |-> sRef1]>>,
   <<[key |-> <<"k">>, token |-> <<"a">>], [key |-> uOther, token |-> <<"b">>]>>,
   <<[key |-> uLong, token |-> uOther]>>,
   <<[key |-> uShort, token |-> <<>>]>>}

InitRefify ==
  /\ doc = Page(<<>>)
  /\ options = DefaultOptions
  /\ hostDOMParser = TRUE
  /\ pc = "start"
  /\ element = null
  /\ ast = <<>>
  /\ next = 1
  /\ markdownString = <<>>
  /\ scored = E("body", <<>>)
  /\ score = calculateScore(scored)
  /\ urlMap \in {[defined |-> TRUE, entries |-> entries] :
                   entries \in CallerMaps}
  /\ callOptions = [DefaultOptions EXCEPT !.refifyUrls = TRUE]
  /\ callElement = E("body", <<>>)
  /\ callAst \in RefAsts
  /\ callOutput = <<>>
  /\ calls = 0
  /\ processed = <<>>

\* refifyUrls(ast, urlMap): the nodes are changed in place and the map is
\* the one returned
Refify ==
  /\ calls < MaxApplications
  /\ LET refified == refifyUrls(callAst, urlMap.entries)
     IN /\ callAst' = refified.nodes
        /\ urlMap' = [defined |-> TRUE, entries |-> refified.map]
  /\ calls' = calls + 1
  /\ UNCHANGED <<callVars, scoreVars, callOptions, callElement, callOutput,
                 processed>>

NextRefify == Refify

SpecRefify == InitRefify /\ [][NextRefify]_vars

\* no token of the map starts with http
noUrlToken(entries) ==
  \A k \in 1..Len(entries) :
    ~startsWith(entries[k].token, <<"h", "t", "t", "p">>)

\* C28 (as stated): for every AST and every map, a second application of
\* refifyUrls with the map the first one returned changes no href or src
\* and adds no entry to the map.
C28_Idempotent ==
  [][calls >= 1 => (callAst' = callAst /\ urlMap' = urlMap)]_vars

\* C28 (amended): for every AST and every map none of whose tokens starts
\* with http, a second application of refifyUrls with the map the first one
\* returned changes no href or src and adds no entry to the map.
C28_IdempotentWithoutUrlTokens ==
  [][(calls >= 1 /\ noUrlToken(urlMap.entries)) =>
       (callAst' = callAst /\ urlMap' = urlMap)]_vars

\* a second application on an AST whose URLs the first one rewrote with a
\* token of the caller and with a token of its own
C28_Witness ==
  /\ calls = 2
  /\ noUrlToken(urlMap.entries)
  /\ Len(urlMap.entries) = 3
  /\ \E k \in 1..Len(urlsVisited(callAst)) :
       urlsVisited(callAst)[k] = <<"b">>
  /\ \E k \in 1..Len(urlsVisited(callAst)) :
       startsWith(urlsVisited(callAst)[k], refToken(2))

\* C29: after refifyUrls with any initial map whose keys hold distinct
\* tokens, supplied by the caller or left by an earlier call, no two
\* distinct keys of the map hold the same token.
C29_MapInjective ==
  calls >= 1 =>
    \A j, k \in 1..Len(urlMap.entries) :
      urlMap.entries[j].token = urlMap.entries[k].token => j = k

\* the lines of a string that start with a digit
numberedLines(s) ==
  SelectSeq(split(s, "\n"),
            LAMBDA line :
              line # <<>> /\ \E d \in 1..Len(Digits) : line[1] = Digits[d])

\* the positions, counted from 1 among all items of a list node, of the
\* items whose rendered and trimmed content is not empty
emittedPositions(node, opts) ==
  SelectSeq([i \in 1..Len(node.items) |-> i],
            LAMBDA i :
              trim(markdownContentASTToString(node.items[i].content, opts,
                                              1)) # <<>>)

\* the AST ends with an ordered list, the only list of the document
endsWithOrderedList ==
  /\ pc = "returned"
  /\ ast # <<>>
  /\ ast[Len(ast)].type = "list"
  /\ ast[Len(ast)].ordered
  /\ \A k \in 1..(Len(ast) - 1) : ast[k].type = "text"

\* C30: the item lines of a rendered ordered list are as many as the items
\* with content, and the number that starts each of them is the position of
\* its item among all items of the list node, the skipped empty items
\* counted.
C30_NumbersArePositions ==
  endsWithOrderedList =>
    LET numbered == numberedLines(markdownString)
        positions == emittedPositions(ast[Len(ast)], options)
    IN /\ Len(numbered) = Len(positions)
       /\ \A k \in 1..Len(numbered) :
            startsWith(numbered[k],
                       NumToString(positions[k]) \o <<".", " ">>)

\* C30 witness: an ordered list of three items whose first item is empty was
\* rendered, giving the lines numbered 2 and 3.
C30_Witness ==
  /\ endsWithOrderedList
  /\ Len(ast[Len(ast)].items) = 3
  /\ ast[Len(ast)].items[1].content = <<>>
  /\ Len(numberedLines(markdownString)) = 2
  /\ startsWith(numberedLines(markdownString)[1], <<"2", ".", " ">>)
  /\ startsWith(numberedLines(markdownString)[2], <<"3", ".", " ">>)

==============================================================================
